---------------------------- MODULE Spec2Model ----------------------------
(***************************************************************************)
(* A model of mk (a reboot of the Plan 9 mk command): the cycle check of   *)
(* the dependency graph and the parallel build scheduler (mkNode,          *)
(* mkNodePrereqs, the subprocess slots and the exclusive reservation).     *)
(*                                                                         *)
(* One behaviour is one run of main on one graph: buildgraph's cyclecheck  *)
(* walks the graph, then the main goroutine calls mkNode on the root and   *)
(* every `go mkNode` adds a builder goroutine.  A step of the model is a   *)
(* stretch of code between two blocking operations (a mutex Lock, a        *)
(* channel send or receive, a Cond.Wait) or two accesses to data shared    *)
(* without a lock.                                                         *)
(***************************************************************************)
EXTENDS Naturals, Integers, Sequences, FiniteSets, TLC

(***************************************************************************)
(* Bounds of the model.                                                    *)
(***************************************************************************)
\* the values of the -p flag that are tried: 1..MaxProcs
MaxProcs == 2

(***************************************************************************)
(* nodeStatus.                                                             *)
(***************************************************************************)
nodeStatusReady == "Ready"
nodeStatusStarted == "Started"
nodeStatusNop == "Nop"
nodeStatusDone == "Done"
nodeStatusFailed == "Failed"

\* the statuses a builder leaves a node in
Terminal == {nodeStatusNop, nodeStatusDone, nodeStatusFailed}

\* nodeFlag: the flag cyclecheck uses
nodeFlagCycle == "Cycle"

\* the nil *node of an edge made by newedge(nil, r)
NilNode == "<nil>"

\* the name of the node of the dummy rule main adds: buildgraph(rs, "")
RootName == ""

\* no goroutine: the value of a free mutex
NoOne == -1

\* the main goroutine, which calls mkNode(g, g.root, dryrun, true) itself
MainId == 0

(***************************************************************************)
(* Rules and graphs.  A rule is what the scheduler reads of it: the V and  *)
(* X attributes and whether the recipe is non-empty.  An edge is the node  *)
(* it leads to (NilNode for a rule without prereqs) and the index of its   *)
(* rule.  A file is its modification time, 0 when it does not exist        *)
(* (updateTimestamp sets time.Unix(0, 0) then).                            *)
(***************************************************************************)
Rule(v, x, rcp) == [virtual |-> v, exclusive |-> x, recipe |-> rcp]

Edge(v, r) == [v |-> v, r |-> r]

\* the dummy rule of main: virtual, no recipe, the targets as prereqs
RootRule == Rule(TRUE, FALSE, FALSE)

\* what a recipe may do: <<it exits with status 0, it writes its target>>
AnyOutcome == BOOLEAN \X BOOLEAN

\* a recipe that succeeds and writes nothing, like sleep 1
Quiet == {<<TRUE, FALSE>>}

\* a graph with the files it is built over, what its recipes may do and the
\* -a and -r flags
Scenario(pre, rules, files, outcomes, all, targets) ==
    [prereqs |-> pre, rules |-> rules, files |-> files, outcomes |-> outcomes,
     rebuildall |-> all, rebuildtargets |-> targets]


(***************************************************************************)
(* The graphs the model runs on.  Each is what applyrules builds from a    *)
(* mkfile of concrete rules, one rule per target, so that the vacuous and  *)
(* ambiguous passes of buildgraph remove no edge of it.                    *)
(***************************************************************************)
\* all: a b / a: c / b: c / c: (a recipe, no prereqs); a exists, b and c do not
Diamond ==
    Scenario(RootName :> <<Edge("a", 1), Edge("b", 1)>>
                @@ "a" :> <<Edge("c", 2)>>
                @@ "b" :> <<Edge("c", 3)>>
                @@ "c" :> <<Edge(NilNode, 4)>>,
             <<RootRule, Rule(FALSE, FALSE, TRUE), Rule(FALSE, FALSE, TRUE),
               Rule(FALSE, FALSE, TRUE)>>,
             RootName :> 0 @@ "a" :> 2 @@ "b" :> 0 @@ "c" :> 0,
             AnyOutcome, FALSE, {})

\* t: a a with a an existing file without a rule: a prereq listed twice
Twice ==
    Scenario(RootName :> <<Edge("t", 1)>>
                @@ "t" :> <<Edge("a", 2), Edge("a", 2)>>
                @@ "a" :> <<>>,
             <<RootRule, Rule(FALSE, FALSE, TRUE)>>,
             RootName :> 0 @@ "t" :> 0 @@ "a" :> 1,
             AnyOutcome, FALSE, {})

\* targets x y z w: x and w exclusive (X), y and z ordinary, all virtual
Exclusive ==
    Scenario(RootName :> <<Edge("x", 1), Edge("y", 1), Edge("z", 1), Edge("w", 1)>>
                @@ "x" :> <<Edge(NilNode, 2)>>
                @@ "y" :> <<Edge(NilNode, 3)>>
                @@ "z" :> <<Edge(NilNode, 3)>>
                @@ "w" :> <<Edge(NilNode, 2)>>,
             <<RootRule, Rule(TRUE, TRUE, TRUE), Rule(TRUE, FALSE, TRUE)>>,
             RootName :> 0 @@ "x" :> 0 @@ "y" :> 0 @@ "z" :> 0 @@ "w" :> 0,
             Quiet, FALSE, {})

\* t: p q / p: s, all files existing: t newer than p and q, s newer than p
Chain(tt, all, targets) ==
    Scenario(RootName :> <<Edge("t", 1)>>
                @@ "t" :> <<Edge("p", 2), Edge("q", 2)>>
                @@ "p" :> <<Edge("s", 3)>>
                @@ "q" :> <<>>
                @@ "s" :> <<>>,
             <<RootRule, Rule(FALSE, FALSE, TRUE), Rule(FALSE, FALSE, TRUE)>>,
             RootName :> 0 @@ "t" :> tt @@ "p" :> 1 @@ "q" :> 3 @@ "s" :> 2,
             AnyOutcome, all, targets)

\* v:V: p with a recipe, and a file named v that is newer than p
Phony ==
    Scenario(RootName :> <<Edge("v", 1)>>
                @@ "v" :> <<Edge("p", 2)>>
                @@ "p" :> <<>>,
             <<RootRule, Rule(TRUE, FALSE, TRUE)>>,
             RootName :> 0 @@ "v" :> 5 @@ "p" :> 1,
             AnyOutcome, FALSE, {})

\* a: b / b: a
Cycle2 ==
    Scenario(RootName :> <<Edge("a", 1)>>
                @@ "a" :> <<Edge("b", 2)>>
                @@ "b" :> <<Edge("a", 3)>>,
             <<RootRule, Rule(FALSE, FALSE, TRUE), Rule(FALSE, FALSE, TRUE)>>,
             RootName :> 0 @@ "a" :> 0 @@ "b" :> 0,
             AnyOutcome, FALSE, {})

\* a: c a, below a node c that is reached twice
Cycle1 ==
    Scenario(RootName :> <<Edge("c", 1), Edge("a", 1)>>
                @@ "a" :> <<Edge("c", 2), Edge("a", 2)>>
                @@ "c" :> <<>>,
             <<RootRule, Rule(FALSE, FALSE, TRUE)>>,
             RootName :> 0 @@ "a" :> 0 @@ "c" :> 1,
             AnyOutcome, FALSE, {})

\* a field a scenario may have besides those of Scenario, or its default
Opt(g, name, default) == IF name \in DOMAIN g THEN g[name] ELSE default

\* all:V: clean with a recipe / clean:V: without recipe or prereqs, a rule
\* applyrules skips: the node of clean has no edge
Clean ==
    [declared |-> {"clean"}]
    @@ Scenario(RootName :> <<Edge("all", 1)>>
                   @@ "all" :> <<Edge("clean", 2)>>
                   @@ "clean" :> <<>>,
                <<RootRule, Rule(TRUE, FALSE, TRUE)>>,
                RootName :> 0 @@ "all" :> 0 @@ "clean" :> 0,
                AnyOutcome, FALSE, {})

\* t: m with a recipe, m having neither a rule nor a file
Missing ==
    Scenario(RootName :> <<Edge("t", 1)>>
                @@ "t" :> <<Edge("m", 2)>>
                @@ "m" :> <<>>,
             <<RootRule, Rule(FALSE, FALSE, TRUE)>>,
             RootName :> 0 @@ "t" :> 0 @@ "m" :> 0,
             AnyOutcome, FALSE, {})

\* a:D: with a recipe and no prereq, and b: with a recipe; no file exists
DelFail ==
    [delFailed |-> {"a"}]
    @@ Scenario(RootName :> <<Edge("a", 1), Edge("b", 1)>>
                   @@ "a" :> <<Edge(NilNode, 2)>>
                   @@ "b" :> <<Edge(NilNode, 3)>>,
                <<RootRule, Rule(FALSE, FALSE, TRUE), Rule(FALSE, FALSE, TRUE)>>,
                RootName :> 0 @@ "a" :> 0 @@ "b" :> 0,
                AnyOutcome, FALSE, {})

\* the graph of Diamond under mk -n
DryDiamond == [dryrun |-> TRUE] @@ Diamond

\* a recipe that succeeds and writes its target
Written == {<<TRUE, TRUE>>}

\* w: s p / p: s / s: (a recipe, no prereqs); p exists, w and s do not
Shared ==
    Scenario(RootName :> <<Edge("w", 1)>>
                @@ "w" :> <<Edge("s", 2), Edge("p", 2)>>
                @@ "p" :> <<Edge("s", 3)>>
                @@ "s" :> <<Edge(NilNode, 4)>>,
             <<RootRule, Rule(FALSE, FALSE, TRUE), Rule(FALSE, FALSE, TRUE),
               Rule(FALSE, FALSE, TRUE)>>,
             RootName :> 0 @@ "w" :> 0 @@ "p" :> 1 @@ "s" :> 0,
             Written, FALSE, {})

Scenarios ==
    {Diamond, Twice, Exclusive, Phony, Cycle2, Cycle1,
     Chain(4, FALSE, {}), Chain(2, FALSE, {}), Chain(4, FALSE, {"t"}),
     Chain(4, TRUE, {}), Clean, Missing, DelFail, DryDiamond, Shared}

(***************************************************************************)
(* The state.                                                              *)
(***************************************************************************)
VARIABLES
    graph,             \* the graph, its rules and the flags: fixed in a run
    fs,                \* the files: name -> modification time, 0 if absent
    clock,             \* the latest modification time given to a file
    status,            \* node.status
    t,                 \* node.t
    exists,            \* node.exists
    listeners,         \* node.listeners: the channels, each <<builder, pass>>
    mutex,             \* node.mutex: the builder holding it, or NoOne
    flags,             \* node.flags
    cstack,            \* the calls of cyclecheck in progress: [u, i]
    phase,             \* "cyclecheck", then "mk"
    builders,          \* the goroutines running mkNode: id -> its locals
    subprocsAllowed,   \* the -p flag
    subprocsRunning,
    condL,             \* subprocsRunningCond.L: the builder holding it
    condWaiters,       \* the builders inside subprocsRunningCond.Wait()
    exclusiveSubproc,  \* the mutex exclusiveSubproc: the builder holding it
    exit,              \* "running", "returned" (main returned) or "mkError"
    stderr,            \* what mkError printed
    runs,              \* history: node -> how often dorecipe was called on it
    reached,           \* history: the nodes a builder has finalized
    started,           \* history: the nodes dorecipe started a subprocess for
    amb,               \* the ambiguous pass of buildgraph on one node
    xp,                \* an expansion: the input, the variables, the result
    pr                 \* a parse: the calls of parseInto, the ruleSet

vars == <<graph, fs, clock, status, t, exists, listeners, mutex, flags, cstack,
          phase, builders, subprocsAllowed, subprocsRunning, condL,
          condWaiters, exclusiveSubproc, exit, stderr, runs, reached, started,
          amb, xp, pr>>

\* what the scheduler and the cycle check read and write
schedVars == <<graph, fs, clock, status, t, exists, listeners, mutex, flags,
               cstack, phase, builders, subprocsAllowed, subprocsRunning,
               condL, condWaiters, exclusiveSubproc, runs, reached,
               started>>

\* what the passes before the build read and write: parsing, expansion and
\* the construction of the graph
frontVars == <<amb, xp, pr>>

nodeVars == <<status, t, exists, listeners, mutex>>
subprocVars == <<subprocsRunning, condL, condWaiters, exclusiveSubproc>>
fileVars == <<fs, clock>>
cycleVars == <<flags, cstack, phase>>
exitVars == <<exit, stderr>>

Nodes == DOMAIN graph.prereqs

\* the largest element of a non-empty set of numbers
Max(S) == CHOOSE x \in S : \A y \in S : y <= x

\* node.prereqs
Prereqs(u) == graph.prereqs[u]

\* the rule of an edge
EdgeRule(e) == graph.rules[e.r]

\* no goroutine runs mkNode yet
NoBuilders == [b \in {} |-> NilNode]

\* the front end is not looked at: the graph is taken as built
FrontIdle == amb = <<>> /\ xp = <<>> /\ pr = <<>>

(***************************************************************************)
(* Init: the state when buildgraph has run applyrules and calls            *)
(* g.cyclecheck(g.root).  newnode has set t and exists of every node from  *)
(* the file of its name.                                                   *)
(***************************************************************************)
Init ==
    /\ graph \in Scenarios
    /\ subprocsAllowed \in 1..MaxProcs
    /\ fs = graph.files
    /\ clock = Max({graph.files[n] : n \in DOMAIN graph.files})
    /\ status = [n \in Nodes |-> nodeStatusReady]
    /\ t = [n \in Nodes |-> graph.files[n]]
    /\ exists = [n \in Nodes |-> graph.files[n] > 0]
    /\ listeners = [n \in Nodes |-> <<>>]
    /\ mutex = [n \in Nodes |-> NoOne]
    /\ flags = [n \in Nodes |-> {}]
    /\ cstack = <<[u |-> RootName, i |-> 0]>>
    /\ phase = "cyclecheck"
    /\ builders = NoBuilders
    /\ subprocsRunning = 0
    /\ condL = NoOne
    /\ condWaiters = {}
    /\ exclusiveSubproc = NoOne
    /\ exit = "running"
    /\ stderr = ""
    /\ runs = [n \in Nodes |-> 0]
    /\ reached = {}
    /\ started = {}
    /\ FrontIdle

(***************************************************************************)
(* mkError: print and os.Exit(1).  Every goroutine ends with the process.  *)
(***************************************************************************)
mkError(msg) ==
    /\ exit' = "mkError"
    /\ stderr' = msg

\* the locals of a call mkNode(g, u, dryrun, required) that has not started
NewBuilder(u, required) ==
    [u |-> u, required |-> required, pc |-> "claim", pass |-> 0, i |-> 0,
     pending |-> 0, finalstatus |-> nodeStatusDone, uptodate |-> TRUE,
     stolen |-> 0]

(***************************************************************************)
(* cyclecheck, one call frame per node on the path: i = 0 before the test  *)
(* of the Cycle flag, then the index of the next edge.                     *)
(***************************************************************************)
CycleTop == cstack[Len(cstack)]

CyclePop == SubSeq(cstack, 1, Len(cstack) - 1)

\* the flags of u when cyclecheck(u) returns
CycleKept(u) == flags[u]

CycleCleared(u) == flags[u] \ {nodeFlagCycle}

\* entering cyclecheck(u): the test, then the flag is set
CycleEnter ==
    /\ exit = "running" /\ phase = "cyclecheck"
    /\ cstack # <<>> /\ CycleTop.i = 0
    /\ LET u == CycleTop.u IN
        IF nodeFlagCycle \in flags[u] /\ Len(Prereqs(u)) > 0
        THEN /\ mkError("cycle in the graph detected")
             /\ UNCHANGED <<flags, cstack>>
        ELSE /\ flags' = [flags EXCEPT ![u] = @ \cup {nodeFlagCycle}]
             /\ cstack' = [cstack EXCEPT ![Len(cstack)].i = 1]
             /\ UNCHANGED exitVars
    /\ UNCHANGED <<frontVars, started, graph, fileVars, nodeVars, phase, builders,
                   subprocsAllowed, subprocVars, runs, reached>>

\* one turn of the loop over u.prereqs: the call on a child that is not nil
CycleLoop ==
    /\ exit = "running" /\ phase = "cyclecheck"
    /\ cstack # <<>>
    /\ LET u == CycleTop.u
           i == CycleTop.i
       IN /\ i >= 1 /\ i <= Len(Prereqs(u))
          /\ LET next == [cstack EXCEPT ![Len(cstack)].i = i + 1] IN
              IF Prereqs(u)[i].v # NilNode
              THEN cstack' = Append(next, [u |-> Prereqs(u)[i].v, i |-> 0])
              ELSE cstack' = next
    /\ UNCHANGED <<frontVars, started, graph, fileVars, nodeVars, flags, phase, builders,
                   subprocsAllowed, subprocVars, exitVars, runs, reached>>

\* the end of cyclecheck(u): the flag is cleared.  When the call on the root
\* returns buildgraph goes on and main calls mkNode(g, g.root, dryrun, true).
CycleReturn ==
    /\ exit = "running" /\ phase = "cyclecheck"
    /\ cstack # <<>>
    /\ LET u == CycleTop.u IN
        /\ CycleTop.i > Len(Prereqs(u))
        /\ flags' = [flags EXCEPT ![u] = CycleCleared(u)]
        /\ cstack' = CyclePop
        /\ IF Len(cstack) = 1
           THEN /\ phase' = "mk"
                /\ builders' = (MainId :> NewBuilder(RootName, TRUE))
           ELSE UNCHANGED <<phase, builders>>
    /\ UNCHANGED <<frontVars, started, graph, fileVars, nodeVars, subprocsAllowed, subprocVars,
                   exitVars, runs, reached>>

(***************************************************************************)
(* The scheduler.                                                          *)
(***************************************************************************)
\* the build goes on until the first failure of a recipe
RunningUntilFailure ==
    /\ exit = "running" /\ phase = "mk"
    /\ \A b \in DOMAIN builders : builders[b].finalstatus # nodeStatusFailed

\* the build goes on: the process has not ended
Running == exit = "running" /\ phase = "mk"

\* node.r: no statement of the program assigns it, so it is nil (0) always
nodeR(u) == 0

\* the prereqs slice of mkNode: the nodes of the edges that have one
PrereqNodes(u) ==
    LET es == SelectSeq(Prereqs(u), LAMBDA e : e.v # NilNode)
    IN [k \in 1..Len(es) |-> es[k].v]

\* the edge e of mkNode: the last edge of u.prereqs with a rule
RuleEdge(u) ==
    LET ks == {k \in 1..Len(Prereqs(u)) : Prereqs(u)[k].r # 0}
    IN Prereqs(u)[Max(ks)]

\* the rule mkNode applies to u
NodeRule(u) == EdgeRule(RuleEdge(u))

Without(f, b) == [x \in DOMAIN f \ {b} |-> f[x]]

\* the id of the next goroutine
FreshId ==
    CHOOSE i \in 1..(Cardinality(DOMAIN builders) + 1) : i \notin DOMAIN builders

\* mkNode returns in goroutine b, the other builders being bs: the goroutine
\* ends, and when it is the main goroutine main returns and the process exits
Return(b, bs) ==
    IF b = MainId
    THEN /\ exit' = "returned"
         /\ stderr' = stderr
         /\ builders' = bs
    ELSE /\ builders' = Without(bs, b)
         /\ UNCHANGED exitVars

\* the locals of a builder that enters mkNodePrereqs for the pass-th time
EnterPrereqs(rec, pass) ==
    [rec EXCEPT !.pass = pass, !.i = 1, !.pending = 0,
                !.pc = IF Len(PrereqNodes(rec.u)) = 0 THEN "wait" ELSE "prereqs"]

\* the required argument mkNodePrereqs hands to the builders it starts:
\* prereqs_required in the first pass, true in the second
PassRequired(rec) ==
    IF rec.pass = 1
    THEN rec.required /\ (NodeRule(rec.u).virtual \/ ~exists[rec.u])
    ELSE TRUE

\* the claim without its test
ClaimableAlways(u) == TRUE

\* the test of the claim: may a builder take the node?
ClaimableAfterDone(u) == status[u] # nodeStatusStarted

Claimable(u) == status[u] = nodeStatusReady \/ status[u] = nodeStatusNop

\* mkNode, the claim: under u.mutex the status is tested and set to Started.
\* Then a node without edges ends Nop, or the process ends in mkError.
Claim(b) ==
    /\ Running /\ b \in DOMAIN builders /\ builders[b].pc = "claim"
    /\ LET u == builders[b].u IN
        /\ mutex[u] = NoOne
        /\ IF ~Claimable(u)
           THEN /\ Return(b, builders)
                /\ UNCHANGED status
           ELSE /\ status' = [status EXCEPT ![u] = nodeStatusStarted]
                /\ IF Len(Prereqs(u)) = 0
                   THEN IF ~(nodeR(u) # 0 /\ graph.rules[nodeR(u)].virtual)
                           /\ ~exists[u]
                        THEN /\ mkError("don't know how to make")
                             /\ UNCHANGED builders
                        ELSE /\ builders' =
                                  [builders EXCEPT
                                     ![b].finalstatus = nodeStatusNop,
                                     ![b].pc = "fin"]
                             /\ UNCHANGED exitVars
                   ELSE /\ builders' =
                             [builders EXCEPT ![b] = EnterPrereqs(@, 1)]
                        /\ UNCHANGED exitVars
    /\ UNCHANGED <<frontVars, started, graph, fileVars, t, exists, listeners, mutex, cycleVars,
                   subprocsAllowed, subprocVars, runs, reached>>

\* the switch on the status of a prereq: a builder is started for it
Spawns(st) == st \in {nodeStatusReady, nodeStatusNop}

\* the switch on the status of a prereq: prereqstat becomes a listener of it
RegistersUnlessStarted(st) == Spawns(st)

Registers(st) == Spawns(st) \/ st = nodeStatusStarted

\* mkNodePrereqs, one turn of the first loop: under the prereq's mutex a
\* builder is started for a Ready or Nop prereq and the channel prereqstat is
\* added to the listeners of a Ready, Nop or Started one
EnumPrereq(b) ==
    /\ Running /\ b \in DOMAIN builders /\ builders[b].pc = "prereqs"
    /\ LET rec == builders[b]
           P == PrereqNodes(rec.u)
           p == P[rec.i]
           spawned == Spawns(status[p])
           registered == Registers(status[p])
           rec2 == [rec EXCEPT !.i = @ + 1,
                               !.pending = IF registered THEN @ + 1 ELSE @,
                               !.pc = IF rec.i + 1 > Len(P)
                                      THEN "wait" ELSE "prereqs"]
       IN /\ mutex[p] = NoOne
          /\ listeners' = IF registered
                          THEN [listeners EXCEPT
                                  ![p] = Append(@, <<b, rec.pass>>)]
                          ELSE listeners
          /\ builders' = IF spawned
                         THEN [builders EXCEPT ![b] = rec2]
                              @@ (FreshId :> NewBuilder(p, PassRequired(rec)))
                         ELSE [builders EXCEPT ![b] = rec2]
    /\ UNCHANGED <<frontVars, started, graph, fileVars, status, t, exists, mutex, cycleVars,
                   subprocsAllowed, subprocVars, exitVars, runs, reached>>

\* uptodate without the test of the prereqs' status
UptodateByTimeOnly(virtual, ex, tu, required, P) ==
    IF ~virtual
    THEN IF ~ex /\ required
         THEN FALSE
         ELSE IF ex \/ required
              THEN ~\E k \in 1..Len(P) : tu < t[P[k]]
              ELSE IF required THEN FALSE ELSE TRUE
    ELSE FALSE

\* uptodate with a virtual rule treated like any other
UptodateOfFile(virtual, ex, tu, required, P) ==
    IF ~ex /\ required
    THEN FALSE
    ELSE IF ex \/ required
         THEN ~\E k \in 1..Len(P) :
                  tu < t[P[k]] \/ status[P[k]] = nodeStatusDone
         ELSE IF required THEN FALSE ELSE TRUE

\* uptodate as mkNode computes it, from u.exists and u.t as updateTimestamp
\* has just set them and from the t and status fields of the prereqs, which
\* are read without their mutex
Uptodate(virtual, ex, tu, required, P) ==
    IF ~virtual
    THEN IF ~ex /\ required
         THEN FALSE
         ELSE IF ex \/ required
              THEN ~\E k \in 1..Len(P) :
                       tu < t[P[k]] \/ status[P[k]] = nodeStatusDone
              ELSE IF required THEN FALSE ELSE TRUE
    ELSE FALSE

\* the -a flag and the -r set override uptodate
Forced(u) == u \in graph.rebuildtargets \/ graph.rebuildall

\* mkNode after the first mkNodePrereqs has returned (its result is dropped):
\* updateTimestamp unless the rule is virtual, then uptodate; an up to date
\* node ends Nop, another one enters mkNodePrereqs again with required true
Check(b) ==
    /\ Running /\ b \in DOMAIN builders
    /\ builders[b].pc = "wait" /\ builders[b].pending = 0
    /\ builders[b].pass = 1
    /\ LET rec == builders[b]
           u == rec.u
           r == NodeRule(u)
           tu == IF r.virtual THEN t[u] ELSE fs[u]
           ex == IF r.virtual THEN exists[u] ELSE fs[u] > 0
           up == Uptodate(r.virtual, ex, tu, rec.required, PrereqNodes(u))
                 /\ ~Forced(u)
       IN /\ t' = [t EXCEPT ![u] = tu]
          /\ exists' = [exists EXCEPT ![u] = ex]
          /\ builders' =
               [builders EXCEPT ![b] =
                  IF up
                  THEN [rec EXCEPT !.uptodate = TRUE,
                                   !.finalstatus = nodeStatusNop,
                                   !.pc = "fin"]
                  ELSE EnterPrereqs([rec EXCEPT !.uptodate = FALSE], 2)]
    /\ UNCHANGED <<frontVars, started, graph, fileVars, status, listeners, mutex, cycleVars,
                   subprocsAllowed, subprocVars, exitVars, runs, reached>>

\* the test that guards the recipe
RunsRecipe(rec) ==
    /\ ~rec.uptodate
    /\ rec.finalstatus # nodeStatusFailed
    /\ NodeRule(rec.u).recipe

\* mkNode after the second mkNodePrereqs has returned (its result is dropped
\* too): on to the reservation, or the node ends Nop
Decide(b) ==
    /\ Running /\ b \in DOMAIN builders
    /\ builders[b].pc = "wait" /\ builders[b].pending = 0
    /\ builders[b].pass = 2
    /\ LET rec == builders[b] IN
        builders' =
          [builders EXCEPT ![b] =
             IF RunsRecipe(rec)
             THEN [rec EXCEPT !.pc = "reserve"]
             ELSE [rec EXCEPT !.pc = "fin",
                              !.finalstatus =
                                 IF @ # nodeStatusFailed
                                 THEN nodeStatusNop ELSE @]]
    /\ UNCHANGED <<frontVars, started, graph, fileVars, nodeVars, cycleVars, subprocsAllowed,
                   subprocVars, exitVars, runs, reached>>

(***************************************************************************)
(* The subprocess slots.  subprocsRunningCond.L is free between the steps  *)
(* of the ordinary reservations; an exclusive reservation keeps it locked  *)
(* from the end of its wait to finishExclusiveSubproc.                     *)
(***************************************************************************)
\* where a builder goes on when Cond.Wait returns: at the test of its loop
WaitLoop(rec) == IF NodeRule(rec.u).exclusive THEN "steal" ELSE "reserve"

\* the builders ws leave subprocsRunningCond.Wait()
Woken(bs, ws) ==
    [x \in DOMAIN bs |->
        IF x \in ws THEN [bs[x] EXCEPT !.pc = WaitLoop(bs[x])] ELSE bs[x]]

\* dorecipe is called on u
StartRecipe(u) == runs' = [runs EXCEPT ![u] = @ + 1]

\* the test of the loop, one off
NoSlotOneOff == subprocsRunning > subprocsAllowed

\* the test of reserveSubproc's loop: is there no free slot?
NoSlot == subprocsRunning >= subprocsAllowed

\* reserveSubproc: with the lock, wait for a signal while no slot is free,
\* else take one; dorecipe follows
ReserveSubproc(b) ==
    /\ Running /\ b \in DOMAIN builders /\ builders[b].pc = "reserve"
    /\ ~NodeRule(builders[b].u).exclusive
    /\ condL = NoOne
    /\ IF NoSlot
       THEN /\ condWaiters' = condWaiters \cup {b}
            /\ builders' = [builders EXCEPT ![b].pc = "condwait"]
            /\ UNCHANGED <<subprocsRunning, runs>>
       ELSE /\ subprocsRunning' = subprocsRunning + 1
            /\ builders' = [builders EXCEPT ![b].pc = "recipe"]
            /\ StartRecipe(builders[b].u)
            /\ UNCHANGED condWaiters
    /\ UNCHANGED <<frontVars, started, graph, fileVars, nodeVars, cycleVars, subprocsAllowed,
                   condL, exclusiveSubproc, exitVars, reached>>

\* reserveExclusiveSubproc: exclusiveSubproc.Lock()
ExclusiveLock(b) ==
    /\ Running /\ b \in DOMAIN builders /\ builders[b].pc = "reserve"
    /\ NodeRule(builders[b].u).exclusive
    /\ exclusiveSubproc = NoOne
    /\ exclusiveSubproc' = b
    /\ builders' = [builders EXCEPT ![b].pc = "steal", ![b].stolen = 0]
    /\ UNCHANGED <<frontVars, started, graph, fileVars, nodeVars, cycleVars, subprocsAllowed,
                   subprocsRunning, condL, condWaiters, exitVars, runs,
                   reached>>

\* the slots of an exclusive reservation that counts those in use as well
StolenAll(rec) == subprocsAllowed

\* the slots an exclusive reservation has when it has taken the free ones
Stolen(rec) == rec.stolen + (subprocsAllowed - subprocsRunning)

\* reserveExclusiveSubproc, with the lock: the free slots are taken; with
\* all of them the call returns, the lock still held, and dorecipe follows;
\* else it waits for a signal
ExclusiveSteal(b) ==
    /\ Running /\ b \in DOMAIN builders /\ builders[b].pc = "steal"
    /\ condL = NoOne
    /\ subprocsRunning' = subprocsAllowed
    /\ LET rec == builders[b]
           n == Stolen(rec)
       IN IF n < subprocsAllowed
          THEN /\ condWaiters' = condWaiters \cup {b}
               /\ builders' = [builders EXCEPT ![b].pc = "condwait",
                                               ![b].stolen = n]
               /\ UNCHANGED <<condL, runs>>
          ELSE /\ condL' = b
               /\ builders' = [builders EXCEPT ![b].pc = "recipe",
                                               ![b].stolen = n]
               /\ StartRecipe(rec.u)
               /\ UNCHANGED condWaiters
    /\ UNCHANGED <<frontVars, started, graph, fileVars, nodeVars, cycleVars, subprocsAllowed,
                   exclusiveSubproc, exitVars, reached>>

\* the dryrun argument of mkNode: the -n flag
DryRun == Opt(graph, "dryrun", FALSE)

\* dorecipe under -n with the return before subprocess left out
Subprocesses == graph.outcomes

\* what the call of dorecipe may do: under -n it returns true before it
\* starts a subprocess, else the subprocess does what the recipe does
Outcomes == IF DryRun THEN {<<TRUE, FALSE>>} ELSE graph.outcomes

\* dorecipe returns, the recipe having succeeded or not and having written
\* its target or not, and updateTimestamp reads the target's file
DoRecipe(b, ok, touch) ==
    /\ Running /\ b \in DOMAIN builders /\ builders[b].pc = "recipe"
    /\ LET u == builders[b].u
           now == IF touch THEN clock + 1 ELSE clock
           file == IF touch THEN now ELSE fs[u]
       IN /\ clock' = now
          /\ started' = IF DryRun THEN started ELSE started \cup {u}
          /\ fs' = [fs EXCEPT ![u] = file]
          /\ t' = [t EXCEPT ![u] = file]
          /\ exists' = [exists EXCEPT ![u] = file > 0]
          /\ builders' =
               [builders EXCEPT ![b].pc = "finish",
                                ![b].finalstatus =
                                   IF ok THEN @ ELSE nodeStatusFailed]
    /\ UNCHANGED <<frontVars, graph, status, listeners, mutex, cycleVars,
                   subprocsAllowed, subprocVars, exitVars, runs, reached>>

\* finishSubproc: the slot is given back and Signal wakes one waiter, if any
FinishSubproc(b) ==
    /\ Running /\ b \in DOMAIN builders /\ builders[b].pc = "finish"
    /\ ~NodeRule(builders[b].u).exclusive
    /\ condL = NoOne
    /\ subprocsRunning' = subprocsRunning - 1
    /\ \E ws \in IF condWaiters = {} THEN {{}}
                 ELSE {{w} : w \in condWaiters} :
          /\ condWaiters' = condWaiters \ ws
          /\ builders' = [Woken(builders, ws) EXCEPT ![b].pc = "fin"]
    /\ UNCHANGED <<frontVars, started, graph, fileVars, nodeVars, cycleVars, subprocsAllowed,
                   condL, exclusiveSubproc, exitVars, runs, reached>>

\* finishExclusiveSubproc: no slot is taken any more, Broadcast wakes every
\* waiter, and both locks are released
FinishExclusiveSubproc(b) ==
    /\ Running /\ b \in DOMAIN builders /\ builders[b].pc = "finish"
    /\ NodeRule(builders[b].u).exclusive
    /\ subprocsRunning' = 0
    /\ condWaiters' = {}
    /\ builders' = [Woken(builders, condWaiters) EXCEPT ![b].pc = "fin"]
    /\ condL' = NoOne
    /\ exclusiveSubproc' = NoOne
    /\ UNCHANGED <<frontVars, started, graph, fileVars, nodeVars, cycleVars, subprocsAllowed,
                   exitVars, runs, reached>>

(***************************************************************************)
(* The deferred function of mkNode.                                        *)
(***************************************************************************)
\* u.mutex is locked and the status set.  Without listeners the mutex is
\* released at once and mkNode returns.
Finalize(b) ==
    /\ Running /\ b \in DOMAIN builders /\ builders[b].pc = "fin"
    /\ LET u == builders[b].u IN
        /\ mutex[u] = NoOne
        /\ status' = [status EXCEPT ![u] = builders[b].finalstatus]
        /\ reached' = reached \cup {u}
        /\ IF listeners[u] = <<>>
           THEN /\ Return(b, builders)
                /\ UNCHANGED mutex
           ELSE /\ mutex' = [mutex EXCEPT ![u] = b]
                /\ builders' = [builders EXCEPT ![b].pc = "notify",
                                                ![b].i = 1]
                /\ UNCHANGED exitVars
    /\ UNCHANGED <<frontVars, started, graph, fileVars, t, exists, listeners, cycleVars,
                   subprocsAllowed, subprocVars, runs>>

\* is builder w receiving from the channel ch (its prereqstat)?
Receiving(w, ch) ==
    /\ w \in DOMAIN builders
    /\ builders[w].pc = "wait"
    /\ builders[w].pass = ch[2]
    /\ builders[w].pending > 0

\* one send u.listeners[i] <- u.status, with u.mutex held: the channel has
\* no buffer, so the send takes place when its builder receives.  After the
\* last one the list is emptied, the mutex released and mkNode returns.
Notify(b) ==
    /\ Running /\ b \in DOMAIN builders /\ builders[b].pc = "notify"
    /\ LET u == builders[b].u
           i == builders[b].i
           ch == listeners[u][i]
           w == ch[1]
           bs == [builders EXCEPT ![w].pending = @ - 1, ![b].i = i + 1]
       IN /\ Receiving(w, ch)
          /\ IF i = Len(listeners[u])
             THEN /\ listeners' = [listeners EXCEPT ![u] = <<>>]
                  /\ mutex' = [mutex EXCEPT ![u] = NoOne]
                  /\ Return(b, bs)
             ELSE /\ builders' = bs
                  /\ UNCHANGED <<listeners, mutex, exitVars>>
    /\ UNCHANGED <<frontVars, started, graph, fileVars, status, t, exists, cycleVars,
                   subprocsAllowed, subprocVars, runs, reached>>

Next ==
    \/ CycleEnter
    \/ CycleLoop
    \/ CycleReturn
    \/ \E b \in DOMAIN builders : Claim(b)
    \/ \E b \in DOMAIN builders : EnumPrereq(b)
    \/ \E b \in DOMAIN builders : Check(b)
    \/ \E b \in DOMAIN builders : Decide(b)
    \/ \E b \in DOMAIN builders : ReserveSubproc(b)
    \/ \E b \in DOMAIN builders : ExclusiveLock(b)
    \/ \E b \in DOMAIN builders : ExclusiveSteal(b)
    \/ \E b \in DOMAIN builders, o \in Outcomes :
          DoRecipe(b, o[1], o[2])
    \/ \E b \in DOMAIN builders : FinishSubproc(b)
    \/ \E b \in DOMAIN builders : FinishExclusiveSubproc(b)
    \/ \E b \in DOMAIN builders : Finalize(b)
    \/ \E b \in DOMAIN builders : Notify(b)

Spec == Init /\ [][Next]_vars

(***************************************************************************)
(* Properties.                                                             *)
(***************************************************************************)
\* the builders that hold a subprocess slot: between the reservation that
\* was granted and the end of finishSubproc or finishExclusiveSubproc
Holders == {b \in DOMAIN builders : builders[b].pc \in {"recipe", "finish"}}

\* the builders whose recipe is executing
Executing == {b \in DOMAIN builders : builders[b].pc = "recipe"}

\* the builders of node u
BuildersOf(u) == {b \in DOMAIN builders : builders[b].u = u}

\* C1: in one run the recipe of a node is invoked at most once, whatever the
\* interleaving of the builders.
RecipeAtMostOnce == \A n \in Nodes : runs[n] <= 1

\* C1, its case: the recipe of a node runs in a builder that claimed the node
\* after it had finished Nop, two builders having been started for the node.
RecipeAfterNopReclaim ==
    \E n \in Nodes :
        /\ runs[n] = 1
        /\ n \in reached
        /\ status[n] = nodeStatusStarted
        /\ Cardinality(BuildersOf(n)) >= 2

\* C2: when the recipe of a node executes, every prereq node of it has
\* reached a terminal status: a builder has finalized it.
PrereqsReachedBeforeRecipe ==
    \A b \in Executing :
        \A k \in DOMAIN PrereqNodes(builders[b].u) :
            PrereqNodes(builders[b].u)[k] \in reached

\* C2, its case: a recipe executes for a node with two parents' worth of
\* requests on its prereq, which has been finalized.
RecipeOfParentExecutes ==
    \E b \in Executing :
        /\ graph = Diamond
        /\ builders[b].u = "b"
        /\ status["c"] \in Terminal

\* C5: at most subprocsAllowed builders hold a subprocess slot.
SlotsWithinCap == Cardinality(Holders) <= subprocsAllowed

\* C5, its case: every slot is held, by ordinary recipes, while another
\* builder waits for one.
AllSlotsHeld ==
    /\ subprocsAllowed = MaxProcs
    /\ Cardinality(Holders) = subprocsAllowed
    /\ \A b \in Holders : ~NodeRule(builders[b].u).exclusive
    /\ condWaiters # {}

\* C6: while the recipe of an exclusive rule executes no other recipe does,
\* and no other builder holds a slot.
ExclusiveAlone ==
    \A b \in Executing :
        NodeRule(builders[b].u).exclusive => Holders = {b}

\* C6, its case: an exclusive recipe executes after it had to wait for an
\* ordinary one to finish, while the other exclusive one is kept out.
ExclusiveAfterDrain ==
    \E b \in Executing :
        /\ NodeRule(builders[b].u).exclusive
        /\ builders[b].stolen = subprocsAllowed
        /\ \E n \in Nodes : ~NodeRule(n).exclusive /\ runs[n] = 1
                             /\ status[n] = nodeStatusDone
        /\ \E c \in DOMAIN builders :
              /\ c # b
              /\ NodeRule(builders[c].u).exclusive
              /\ builders[c].pc = "reserve"

\* the prereq nodes of u, as a set
PrereqSet(u) == {PrereqNodes(u)[k] : k \in DOMAIN PrereqNodes(u)}

\* C3: when main has returned, a node with a prereq node that ended Failed
\* has ended Failed itself and its recipe has not been executed.
FailedPrereqFailsNode ==
    exit = "returned" =>
        \A u \in Nodes :
            (\E p \in PrereqSet(u) : status[p] = nodeStatusFailed)
                => status[u] = nodeStatusFailed /\ runs[u] = 0

\* a recipe has exited with a non-zero status in this run
RecipeFailed ==
    \/ \E n \in Nodes : status[n] = nodeStatusFailed
    \/ \E b \in DOMAIN builders : builders[b].finalstatus = nodeStatusFailed

\* C4: the process exits with status 0, main returning, only if no recipe
\* has failed.
ExitZeroOnlyWithoutFailure == exit = "returned" => ~RecipeFailed

\* C7: a build that has not ended can take a step: no state is reached in
\* which every builder is blocked for ever, on a node mutex or on a send to
\* a listener.
BuildersNeverStuck == Running => ENABLED Next

\* a prereq node of u has a later timestamp than u, or the status Done
DecidedOutOfDate(u) ==
    \E p \in PrereqSet(u) : t[u] < t[p] \/ status[p] = nodeStatusDone

\* the step in which builder b, back from its first mkNodePrereqs, decides
\* on uptodate
Decides(b) ==
    /\ b \in DOMAIN builders /\ b \in DOMAIN builders'
    /\ builders[b].pc = "wait" /\ builders[b].pass = 1
    /\ builders[b].pending = 0
    /\ builders'[b] # builders[b]

\* C8: a builder that decides on uptodate for a node whose rule is not
\* virtual and whose file exists, without -a and the node not in the -r
\* set, finds it out of date iff a prereq node has a later timestamp or
\* the status Done; finding it up to date it ends the node Nop without
\* executing the recipe.
UptodateOfExistingFile ==
    [][\A b \in DOMAIN builders :
          LET u == builders[b].u IN
          (Decides(b) /\ ~NodeRule(u).virtual /\ exists'[u] /\ ~Forced(u))
            => /\ builders'[b].uptodate <=> ~DecidedOutOfDate(u)'
               /\ builders'[b].uptodate =>
                     /\ builders'[b].pc = "fin"
                     /\ builders'[b].finalstatus = nodeStatusNop
                     /\ runs'[u] = runs[u]]_vars

\* C8, its case: an existing target that is newer than every prereq has
\* been found out of date because a prereq has the status Done.
OutOfDateByDoneOnly ==
    \E b \in DOMAIN builders :
        LET u == builders[b].u IN
        /\ builders[b].pass = 2 /\ builders[b].pc = "prereqs"
        /\ ~builders[b].uptodate
        /\ ~NodeRule(u).virtual /\ exists[u] /\ ~Forced(u)
        /\ \A p \in PrereqSet(u) : t[u] >= t[p]
        /\ \E p \in PrereqSet(u) : status[p] = nodeStatusDone

\* the nodes with a rule that is virtual and has a recipe
VirtualWithRecipe ==
    {n \in Nodes : Prereqs(n) # <<>> /\ NodeRule(n).virtual
                                     /\ NodeRule(n).recipe}

\* C9: no builder finds a node with a virtual rule up to date, and when
\* main has returned the recipe of every such node none of whose prereqs
\* failed has been executed, whatever the files and their timestamps.
VirtualNeverUptodate ==
    /\ \A b \in DOMAIN builders :
          (Prereqs(builders[b].u) # <<>>
             /\ NodeRule(builders[b].u).virtual
             /\ builders[b].pass = 2) => ~builders[b].uptodate
    /\ exit = "returned" =>
          \A n \in VirtualWithRecipe :
              (\A p \in PrereqSet(n) : status[p] # nodeStatusFailed)
                 => runs[n] = 1

\* C9, its case: the recipe of a virtual target has been executed although
\* a file of its name exists and is newer than its prereq.
VirtualRebuiltOverNewerFile ==
    /\ exit = "returned"
    /\ graph = Phony
    /\ runs["v"] = 1
    /\ fs["v"] > 0 /\ fs["v"] > fs["p"]
    /\ status["p"] = nodeStatusNop

(***************************************************************************)
(* Cycles of a graph, by reachability.                                     *)
(***************************************************************************)
\* the nodes the edges of u lead to
Children(u) == {Prereqs(u)[k].v : k \in DOMAIN Prereqs(u)} \ {NilNode}

RECURSIVE Closure(_)
\* the nodes reached from the nodes S by zero or more edges
Closure(S) ==
    LET T == S \cup UNION {Children(n) : n \in S}
    IN IF T = S THEN S ELSE Closure(T)

\* is there a directed cycle among the nodes reached from the root?
HasCycle ==
    \E n \in Closure({RootName}) : n \in Closure(Children(n))

\* C10: the cycle check ends in the fatal error only on a graph with a
\* cycle reachable from the root, and it passes only on a graph without
\* one, every Cycle flag cleared; on a graph with a cycle no builder ever
\* starts and no recipe is executed.
CycleErrorIffCycle ==
    /\ stderr = "cycle in the graph detected" => HasCycle
    /\ phase = "mk" =>
          /\ ~HasCycle
          /\ \A n \in Nodes : nodeFlagCycle \notin flags[n]
    /\ HasCycle =>
          /\ builders = NoBuilders
          /\ \A n \in Nodes : runs[n] = 0
          /\ exit = "mkError" => stderr = "cycle in the graph detected"

\* C10, its case: the check has ended in the cycle error, on the graph with
\* the cycle a -> a below the root.
CycleErrorRaised ==
    /\ exit = "mkError"
    /\ stderr = "cycle in the graph detected"
    /\ graph = Cycle1
    /\ \A n \in Nodes : runs[n] = 0

(***************************************************************************)
(* The ambiguous pass of buildgraph, on the node of one target whose edges *)
(* applyrules has made from a rule set: the edges of the concrete rules of *)
(* the target in the order of the rule set, then those of the meta-rules   *)
(* that match it.  A rule has a recipe and no prereq, or the one prereq    *)
(* "p", the target of a concrete rule with a recipe: no node below is      *)
(* vacuous and the vacuous pass has removed no edge.                       *)
(***************************************************************************)
\* the longest rule set
MaxRules == 3

\* the target whose node is looked at, and the prereq of its rules
AmbTarget == "t"

AmbPrereq == "p"

\* rule.shell: the argv of the S attribute
Shells == {<<"sh">>, <<"sh", "-x">>}

\* the rules of a rule set: what applyrules and ambiguous read of a rule
AmbRules ==
    [ismeta : BOOLEAN, recipe : {"A", "B"}, shell : Shells, prereqs : {<<>>}]
    \cup [ismeta : BOOLEAN, recipe : {""}, shell : {<<"sh">>},
          prereqs : {<<>>, <<AmbPrereq>>}]

RuleSets == UNION {[1..n -> AmbRules] : n \in 1..MaxRules}

\* equivRecipe with the recipe text alone
equivRecipeOfText(r1, r2) == r1.recipe = r2.recipe

\* equivRecipe: the same recipe and the same shell, element by element
equivRecipe(r1, r2) ==
    /\ r1.recipe = r2.recipe
    /\ Len(r1.shell) = Len(r2.shell)
    /\ \A i \in 1..Len(r1.shell) : r1.shell[i] = r2.shell[i]

\* a rule applyrules skips: it has no effect
NoEffect(r) == r.recipe = "" /\ Len(r.prereqs) = 0

\* the edges newedge makes for rule k: one per prereq, or one to no node
RuleEdges(rs, k) ==
    IF Len(rs[k].prereqs) = 0
    THEN <<[v |-> NilNode, r |-> k, togo |-> FALSE]>>
    ELSE [j \in 1..Len(rs[k].prereqs) |->
             [v |-> rs[k].prereqs[j], r |-> k, togo |-> FALSE]]

RECURSIVE EdgesOf(_, _)
\* the edges of the rules ks, in order
EdgesOf(rs, ks) ==
    IF ks = <<>> THEN <<>>
    ELSE RuleEdges(rs, Head(ks)) \o EdgesOf(rs, Tail(ks))

\* applyrules on the target: the concrete rules first, then the meta-rules
applyrules(rs) ==
    LET concrete(k) == ~rs[k].ismeta /\ ~NoEffect(rs[k])
        meta(k) == rs[k].ismeta /\ ~NoEffect(rs[k])
        ks == [k \in 1..Len(rs) |-> k]
    IN EdgesOf(rs, SelectSeq(ks, concrete)) \o EdgesOf(rs, SelectSeq(ks, meta))

\* togo: the edges that are not marked
togo(es) == SelectSeq(es, LAMBDA e : ~e.togo)

\* the scheduler has not started and does not start
SchedIdle ==
    /\ graph = Scenario(RootName :> <<>>, <<RootRule>>, RootName :> 0, Quiet,
                        FALSE, {})
    /\ subprocsAllowed = 1
    /\ fs = graph.files
    /\ clock = 0
    /\ status = [n \in Nodes |-> nodeStatusReady]
    /\ t = [n \in Nodes |-> 0]
    /\ exists = [n \in Nodes |-> FALSE]
    /\ listeners = [n \in Nodes |-> <<>>]
    /\ mutex = [n \in Nodes |-> NoOne]
    /\ flags = [n \in Nodes |-> {}]
    /\ cstack = <<>>
    /\ phase = "buildgraph"
    /\ builders = NoBuilders
    /\ subprocsRunning = 0
    /\ condL = NoOne
    /\ condWaiters = {}
    /\ exclusiveSubproc = NoOne
    /\ runs = [n \in Nodes |-> 0]
    /\ reached = {}
    /\ started = {}

\* buildgraph calls g.ambiguous on the node: bad = 0, le = nil (0)
InitAmbiguous ==
    /\ SchedIdle
    /\ exit = "running"
    /\ stderr = ""
    /\ xp = <<>>
    /\ pr = <<>>
    /\ \E rs \in RuleSets :
          amb = [rs |-> rs, prereqs |-> applyrules(rs), i |-> 1, bad |-> 0,
                 le |-> 0, pc |-> "loop"]

\* one turn of the loop of ambiguous, on the edge e = u.prereqs[i].  The call
\* on the node of the edge finds one edge there and changes nothing.
AmbiguousEdge ==
    /\ exit = "running" /\ amb # <<>> /\ amb.pc = "loop"
    /\ amb.i <= Len(amb.prereqs)
    /\ LET i == amb.i
           e == amb.prereqs[i]
           er == amb.rs[e.r]
           ler == amb.rs[amb.prereqs[amb.le].r]
           next == [amb EXCEPT !.i = i + 1]
       IN amb' =
            IF er.recipe = "" THEN next
            ELSE IF amb.le = 0 THEN [next EXCEPT !.le = i]
            ELSE IF ~equivRecipe(ler, er) /\ ler.ismeta /\ ~er.ismeta
                 THEN [next EXCEPT !.prereqs[amb.le].togo = TRUE, !.le = i]
            ELSE IF ~equivRecipe(ler, er) /\ ~ler.ismeta /\ er.ismeta
                 THEN [next EXCEPT !.prereqs[i].togo = TRUE]
            ELSE IF ~equivRecipe(ler, er) THEN [next EXCEPT !.bad = 1]
            ELSE next
    /\ UNCHANGED <<schedVars, exit, stderr, xp, pr>>

\* after the loop: mkError when bad > 0 (the message has been printed by
\* mkPrintError), else g.togo(u) removes the marked edges
AmbiguousEnd ==
    /\ exit = "running" /\ amb # <<>> /\ amb.pc = "loop"
    /\ amb.i > Len(amb.prereqs)
    /\ IF amb.bad > 0
       THEN /\ mkError("mk: ambiguous recipes")
            /\ UNCHANGED amb
       ELSE /\ amb' = [amb EXCEPT !.prereqs = togo(@), !.pc = "done"]
            /\ UNCHANGED <<exit, stderr>>
    /\ UNCHANGED <<schedVars, xp, pr>>

NextAmbiguous ==
    \/ AmbiguousEdge
    \/ AmbiguousEnd

SpecAmbiguous == InitAmbiguous /\ [][NextAmbiguous]_vars

\* the same recipe: the same text and the same shell argv
SameTextAndArgv(r1, r2) == r1.recipe = r2.recipe /\ r1.shell = r2.shell

\* the rules of the edges es that carry a recipe, concrete or meta
RecipeRules(es, ismeta) ==
    {amb.rs[es[k].r] : k \in {j \in DOMAIN es :
        amb.rs[es[j].r].recipe # "" /\ amb.rs[es[j].r].ismeta = ismeta}}

\* the recipes of the edges es cannot be reconciled by preferring concrete
\* rules: two concrete rules differ, or there is none and two meta-rules do
Unresolvable(es) ==
    \/ \E r1, r2 \in RecipeRules(es, FALSE) : ~SameTextAndArgv(r1, r2)
    \/ /\ RecipeRules(es, FALSE) = {}
       /\ \E r1, r2 \in RecipeRules(es, TRUE) : ~SameTextAndArgv(r1, r2)

\* C11: when the ambiguous pass has succeeded the remaining edges with a
\* recipe carry equivalent recipes (same text, same shell argv) and every
\* recipe of a concrete rule has been kept; it succeeds only if preferring
\* concrete rules reconciles the recipes, and else ends in the fatal error
\* with no builder started and no recipe executed.
AmbiguousResolved ==
    /\ amb.pc = "done" =>
          /\ \A r1, r2 \in RecipeRules(amb.prereqs, FALSE)
                            \cup RecipeRules(amb.prereqs, TRUE) :
                SameTextAndArgv(r1, r2)
          /\ RecipeRules(amb.prereqs, FALSE)
                = RecipeRules(applyrules(amb.rs), FALSE)
          /\ ~Unresolvable(applyrules(amb.rs))
    /\ exit = "mkError" =>
          /\ Unresolvable(applyrules(amb.rs))
          /\ builders = NoBuilders
          /\ \A n \in Nodes : runs[n] = 0

\* C11, its case: the pass has succeeded and has removed the edge of a
\* meta-rule whose recipe differs from the one of a concrete rule, keeping
\* the edge of a meta-rule with the same recipe.
MetaRecipeDropped ==
    /\ amb.pc = "done"
    /\ Len(amb.prereqs) < Len(applyrules(amb.rs))
    /\ RecipeRules(amb.prereqs, FALSE) # {}
    /\ RecipeRules(amb.prereqs, TRUE) # {}

(***************************************************************************)
(* Properties of the scheduler: leaves, failures, the D attribute and -n.  *)
(***************************************************************************)
\* the nodes without an edge
Leaves == {n \in Nodes : Prereqs(n) = <<>>}

\* the targets the mkfile declares virtual with a rule that makes no edge
DeclaredVirtual == Opt(graph, "declared", {})

\* the process has ended in "don't know how to make" on node n: the claim of
\* n is where its builder stopped
UnknownTarget(n) ==
    /\ exit = "mkError" /\ stderr = "don't know how to make"
    /\ status[n] = nodeStatusStarted
    /\ \E b \in BuildersOf(n) : builders[b].pc = "claim"

\* C12: a node without edges that is declared virtual or exists on disk ends
\* Nop, without the error and without a recipe; one that is neither ends the
\* build in the error "don't know how to make" when a builder claims it.
LeafNopOrUnknown ==
    \A n \in Leaves :
        IF n \in DeclaredVirtual \/ fs[n] > 0
        THEN /\ ~UnknownTarget(n)
             /\ runs[n] = 0
             /\ n \in reached =>
                   status[n] \in {nodeStatusNop, nodeStatusStarted}
        ELSE status[n] # nodeStatusReady => UnknownTarget(n)

\* the nodes whose rule carries the D attribute
DelFailed == Opt(graph, "delFailed", {})

\* C14: when the build has ended, no file exists of a target whose rule
\* carries D and whose recipe has failed.
DeletedOnFailure ==
    exit = "returned" =>
        \A n \in DelFailed : status[n] = nodeStatusFailed => fs[n] = 0

\* C15: under -n no subprocess is started for a recipe, every call of
\* dorecipe reports success, so that no node ends Failed, and no file is
\* created or modified.
DryRunTouchesNothing ==
    DryRun =>
        /\ started = {}
        /\ fs = graph.files
        /\ \A n \in Nodes : status[n] # nodeStatusFailed
        /\ \A b \in DOMAIN builders :
              builders[b].finalstatus # nodeStatusFailed

\* C15, its case: a build under -n has ended, dorecipe having been called
\* for the three recipes of the graph.
DryRunEnded ==
    /\ DryRun
    /\ exit = "returned"
    /\ runs["a"] = 1 /\ runs["b"] = 1 /\ runs["c"] = 1

(***************************************************************************)
(* Progress.  A goroutine that can run does run: the Go scheduler leaves   *)
(* no runnable goroutine waiting for ever, and a step of the model is a    *)
(* step of one of them.                                                    *)
(***************************************************************************)
FairSpec == Spec /\ WF_vars(Next)

\* the nodes whose recipe has failed
FailedNodes ==
    {n \in Nodes :
        \/ status[n] = nodeStatusFailed
        \/ \E b \in BuildersOf(n) : builders[b].finalstatus = nodeStatusFailed}

\* n is a failed node or depends on one, by any number of edges
DependsOnFailed(n) == Closure({n}) \cap FailedNodes # {}

\* a builder has found n out of date and its rule has a recipe
FoundOutOfDate(n) ==
    \E b \in BuildersOf(n) :
        /\ builders[b].pass = 2
        /\ ~builders[b].uptodate
        /\ NodeRule(n).recipe

Backquote == "<backquote>"

\* what utf8.DecodeRuneInString gives at the end of a string, with width 0
RuneError == "RuneError"

Rune(s) == IF s = <<>> THEN RuneError ELSE s[1]

Width(s) == IF s = <<>> THEN 0 ELSE 1

\* s[:n] and s[n:]
Take(s, n) == SubSeq(s, 1, n)

Drop(s, n) == SubSeq(s, n + 1, Len(s))

\* strings.IndexAny and strings.IndexRune
IndexAny(s, chars) ==
    IF \E i \in 1..Len(s) : s[i] \in chars
    THEN (CHOOSE i \in 1..Len(s) :
             s[i] \in chars /\ \A k \in 1..(i - 1) : s[k] \notin chars) - 1
    ELSE -1

isdigit(c) == c \in {"0", "1", "2", "3", "4", "5", "6", "7", "8", "9"}

isalpha(c) ==
    c \in {"a", "b", "c", "d", "e", "f", "g", "h", "i", "j", "k", "l", "m",
           "n", "o", "p", "q", "r", "s", "t", "u", "v", "w", "x", "y", "z",
           "A", "B", "C", "D", "E", "F", "G", "H", "I", "J", "K", "L", "M",
           "N", "O", "P", "Q", "R", "S", "T", "U", "V", "W", "X", "Y", "Z"}

isalnum(c) == isalpha(c) \/ isdigit(c)

\* every string is a valid name
anyName(v) == TRUE

\* isValidVarName: the first character a letter or _, every character a
\* letter, a digit or _; the empty string passes
isValidVarName(v) ==
    \A i \in 1..Len(v) :
        /\ i = 1 => (isalpha(v[i]) \/ v[i] = "_")
        /\ isalnum(v[i]) \/ v[i] = "_"

\* \s of a regular expression
IsSpace(c) == c \in {" ", "\t", "\n", "\r", "\f"}

\* the length of the longest prefix of a string all in a class of
\* characters, hits being TRUE where the string has a character of the class
PrefixLen(hits) ==
    CHOOSE n \in 0..Len(hits) :
        /\ \A i \in 1..n : hits[i]
        /\ n = Len(hits) \/ ~hits[n + 1]

\* the places of s with a space of a regular expression
Spaces(s) == [i \in 1..Len(s) |-> IsSpace(s[i])]

\* nil: no match of a regular expression; no string is equal to it
Nil == <<"<nil>">>

\* namelist_pattern.FindStringSubmatch:
\*   ^\s*([^:]+)\s*:\s*([^%]*)%([^=]*)\s*=\s*([^%]*)%([^%]*)\s*
\* The name runs to the first colon, a to the first % after it, b to the
\* first = after that, c to the next % and d to the one after or to the end;
\* the spaces before the name, before a and before c are skipped.
namelistMatch(s) ==
    LET SkipSpace(r) == Drop(r, PrefixLen(Spaces(r)))
        AtD(ok, name, a, b, c, r4, g) ==
            IF ok
            THEN [matched |-> TRUE, name |-> name, a |-> a, b |-> b,
                  c |-> c, d |-> IF g < 0 THEN r4 ELSE Take(r4, g)]
            ELSE [matched |-> FALSE]
        AtC(ok, name, a, b, r3, f) ==
            AtD(ok /\ f >= 0, name, a, b, Take(r3, f), Drop(r3, f + 1),
                IndexAny(Drop(r3, f + 1), {"%"}))
        AtB(ok, name, a, r2, e) ==
            AtC(ok /\ e >= 0, name, a, Take(r2, e),
                SkipSpace(Drop(r2, e + 1)),
                IndexAny(SkipSpace(Drop(r2, e + 1)), {"%"}))
        AtA(ok, name, r1, q) ==
            AtB(ok /\ q >= 0, name, Take(r1, q), Drop(r1, q + 1),
                IndexAny(Drop(r1, q + 1), {"="}))
        AtName(k0, p) ==
            AtA(p > 0 \/ (p = 0 /\ k0 > 0),
                IF p > 0 THEN SubSeq(s, k0 + 1, k0 + p) ELSE <<s[k0]>>,
                SkipSpace(Drop(s, k0 + p + 1)),
                IndexAny(SkipSpace(Drop(s, k0 + p + 1)), {"%"}))
    IN AtName(PrefixLen(Spaces(s)),
              IndexAny(Drop(s, PrefixLen(Spaces(s))), {":"}))

\* pat.FindStringSubmatch(value)[1] for pat = ^\Qa\E(.*)\Qb\E$, a and b
\* without \E: value begins with a and ends with b, and what is between,
\* which holds no newline, is the submatch
valueMatch(a, b, value) ==
    IF /\ Len(value) >= Len(a) + Len(b)
       /\ Take(value, Len(a)) = a
       /\ Drop(value, Len(value) - Len(b)) = b
       /\ \A i \in (Len(a) + 1)..(Len(value) - Len(b)) : value[i] # "\n"
    THEN SubSeq(value, Len(a) + 1, Len(value) - Len(b))
    ELSE Nil

\* a reference to an undefined variable is dropped
undefinedDropped(input, offset) == <<>>

\* what expandSigil gives for a valid name that is not defined: the
\* reference as it stands
undefined(input, offset) == <<(<<"$">> \o Take(input, offset))>>

\* the length of the name a bare reference begins with: a letter or _,
\* then letters, digits and _
BareLen(input) ==
    IF input = <<>> \/ ~(isalpha(input[1]) \/ input[1] = "_") THEN 0
    ELSE 1 + PrefixLen([i \in 1..(Len(input) - 1) |->
                          isalnum(input[i + 1]) \/ input[i + 1] = "_"])

\* expandSigil: the expansion of what follows a $, as [parts, off]
expandSigil(input, vs) ==
    LET whole == [parts |-> <<(<<"$">> \o input)>>, off |-> Len(input)]
        lookup(varname, offset) ==
            IF isValidVarName(varname)
            THEN IF varname \in DOMAIN vs
                 THEN [parts |-> vs[varname], off |-> offset]
                 ELSE [parts |-> undefined(input, offset), off |-> offset]
            ELSE whole
        subst(mat, value, x) ==
            IF x # Nil THEN mat.c \o x \o mat.d ELSE value
        namelist(mat, offset) ==
            IF mat.name \notin DOMAIN vs
            THEN [parts |-> <<>>, off |-> offset]
            ELSE [parts |->
                    [i \in 1..Len(vs[mat.name]) |->
                       subst(mat, vs[mat.name][i],
                             valueMatch(mat.a, mat.b, vs[mat.name][i]))],
                  off |-> offset]
        braces(w, j, mat) ==
            IF j < 0 THEN whole
            ELSE IF mat.matched /\ isValidVarName(mat.name)
            THEN namelist(mat, w + j + 1)
            ELSE lookup(SubSeq(input, w + 1, w + j), w + j + 1)
        closing(w, j) ==
            braces(w, j, namelistMatch(SubSeq(input, w + 1, w + j)))
        bare(m) == IF m > 0 THEN lookup(Take(input, m), m) ELSE whole
    IN IF Rune(input) = "$" THEN [parts |-> <<(<<"$">>)>>, off |-> 2]
       ELSE IF Rune(input) = "{"
       THEN closing(Width(input),
                    IndexAny(Drop(input, Width(input)), {"}"}))
       ELSE bare(BareLen(input))

RECURSIVE Join(_, _)
\* strings.Join
Join(parts, sep) ==
    IF parts = <<>> THEN <<>>
    ELSE IF Len(parts) = 1 THEN parts[1]
    ELSE parts[1] \o sep \o Join(Tail(parts), sep)

\* expandEscape: what follows a backslash; a space or a tab stands for
\* itself, before any other character the backslash is kept
expandEscape(input) ==
    IF Rune(input) \in {"\t", " "}
    THEN [out |-> <<Rune(input)>>, off |-> Width(input)]
    ELSE [out |-> <<"\\", Rune(input)>>, off |-> Width(input)]

\* expandSingleQuoted: up to the next ', or all of it
expandSingleQuoted(input) ==
    LET j == IndexAny(input, {"'"})
    IN IF j < 0 THEN [out |-> input, off |-> Len(input)]
       ELSE [out |-> Take(input, j), off |-> j + 1]

\* the words of the output of the shell on a backquoted command: those of
\* a command that prints o k
BackquoteWords == <<(<<"o">>), (<<"k">>)>>

\* expandBackQuoted: up to the next backquote, the words the command prints
expandBackQuoted(input, vs) ==
    LET j == IndexAny(input, {Backquote})
    IN IF j < 0 THEN [parts |-> <<input>>, off |-> Len(input)]
       ELSE [parts |-> BackquoteWords, off |-> j + 1]

\* the parts and the word under construction when the parts outparts are
\* added after the text expanded
Compose(parts, expanded, outparts) ==
    IF Len(outparts) = 0 THEN [parts |-> parts, expanded |-> expanded]
    ELSE IF Len(outparts) = 1
    THEN [parts |-> parts, expanded |-> expanded \o outparts[1]]
    ELSE [parts |-> parts \o <<expanded \o outparts[1]>>
                          \o SubSeq(outparts, 2, Len(outparts) - 1),
          expanded |-> outparts[Len(outparts)]]

RECURSIVE expandFrom(_, _, _, _, _, _)
RECURSIVE expandDoubleQuotedFrom(_, _, _, _)
\* expand: the words a word of the mkfile stands for
expand(input, vs, expandBackticks) ==
    expandFrom(input, 0, <<>>, <<>>, vs, expandBackticks)

\* expandDoubleQuoted: the text up to the first " that no backslash
\* precedes is expanded and its words joined by spaces
expandDoubleQuoted(input, vs, expandBackticks) ==
    expandDoubleQuotedFrom(input, 0, vs, expandBackticks)

\* one turn of the loop of expandDoubleQuoted: the search starts at j and
\* its result, an offset from j, is taken as an offset from 0
expandDoubleQuotedFrom(input, j, vs, expandBackticks) ==
    LET all == [out |-> input, off |-> Len(input)]
        again(k) == expandDoubleQuotedFrom(input, k, vs, expandBackticks)
        escaped(j2) ==
            IF j2 < Len(input) THEN again(j2 + Width(Drop(input, j2)))
            ELSE all
        at(c, w, j1) ==
            IF c = "\""
            THEN [out |-> Join(expand(Take(input, j1), vs, expandBackticks),
                               <<" ">>),
                  off |-> j1 + w]
            ELSE IF c = "\\" THEN escaped(j1 + w)
            ELSE again(j1)
        found(r) ==
            IF r < 0 THEN all
            ELSE at(Rune(Drop(input, r)), Width(Drop(input, r)),
                    r + Width(Drop(input, r)))
    IN found(IndexAny(Drop(input, j), {"\"", "\\"}))

\* the loop of expand from offset i, with the parts and the word made so far
expandFrom(input, i, parts, expanded, vs, expandBackticks) ==
    LET finish(e) == IF Len(e) > 0 THEN Append(parts, e) ELSE parts
        again(k, n) ==
            expandFrom(input, k, n.parts, n.expanded, vs, expandBackticks)
        added(e1, r) ==
            IF "out" \in DOMAIN r
            THEN [parts |-> parts, expanded |-> e1 \o r.out]
            ELSE Compose(parts, e1, r.parts)
        special(c, rest) ==
            IF c = "\\" THEN expandEscape(rest)
            ELSE IF c = "\""
            THEN expandDoubleQuoted(rest, vs, expandBackticks)
            ELSE IF c = "'" THEN expandSingleQuoted(rest)
            ELSE IF c = Backquote
            THEN IF expandBackticks THEN expandBackQuoted(rest, vs)
                 ELSE [out |-> input, off |-> Len(input)]
            ELSE expandSigil(rest, vs)
        next(j, e1, r) == again(j + 1 + r.off, added(e1, r))
        found(j) ==
            IF j < i THEN finish(expanded \o Drop(input, i))
            ELSE next(j, expanded \o SubSeq(input, i + 1, j),
                      special(input[j + 1], Drop(input, j + 1)))
    IN IF i >= Len(input) THEN finish(expanded)
       ELSE found(IndexAny(Drop(input, i),
                           {"\"", "'", Backquote, "$", "\\"}) + i)

RECURSIVE expandRecipeSigilsFrom(_, _, _, _)
\* the loop of expandRecipeSigils from offset i
expandRecipeSigilsFrom(input, i, expanded, vs) ==
    LET again(k, e) == expandRecipeSigilsFrom(input, k, e, vs)
        sigil(k, e1, ex) ==
            again(k + ex.off, e1 \o Join(ex.parts, <<" ">>))
        escape(k, e1, rest) ==
            again(k + Width(rest),
                  e1 \o (IF Rune(rest) = "$" THEN <<"$">>
                         ELSE <<"\\", Rune(rest)>>))
        at(k, e1, c, rest) ==
            IF c = "$" THEN sigil(k, e1, expandSigil(rest, vs))
            ELSE escape(k, e1, rest)
        found(off) ==
            IF off < 0 THEN expanded \o Drop(input, i)
            ELSE at(i + off + 1, expanded \o SubSeq(input, i + 1, i + off),
                    input[i + off + 1], Drop(input, i + off + 1))
    IN IF i >= Len(input) THEN expanded
       ELSE found(IndexAny(Drop(input, i), {"$", "\\"}))

\* expandRecipeSigils: a recipe with its sigils expanded, one string
expandRecipeSigils(input, vs) == expandRecipeSigilsFrom(input, 0, <<>>, vs)

(***************************************************************************)
(* Expansions.  An input is made of pieces, so that references, literal    *)
(* text and namelists meet in every order; the variables u and w are not   *)
(* defined, d is a list and e is one word.                                 *)
(***************************************************************************)
\* the most pieces of an input
MaxPieces == 3

\* the most values of the variable d
MaxValues == 2

\* references to a variable that is not defined: $u and ${u}
UndefinedBare == <<"$", "u">>

UndefinedBraced == <<"$", "{", "u", "}">>

\* text without a special character
Literals == {<<"x">>, <<".">>}

\* ${d:a%b=c%d}
Namelist(a, b, c, d) ==
    <<"$", "{", "d", ":">> \o a \o <<"%">> \o b \o <<"=">> \o c \o <<"%">>
        \o d \o <<"}">>

Pieces ==
    {UndefinedBare, UndefinedBraced, <<"$", "d">>, <<"$", "{", "e", "}">>,
     <<"$", "$">>, <<"\\", "$">>, <<"'", "$", "u", "'">>,
     Namelist(<<>>, <<".", "c">>, <<>>, <<".", "o">>)} \cup Literals

\* the parts of namelists
NamelistParts ==
    [a : {<<>>, <<"l">>}, b : {<<>>, <<".", "c">>}, c : {<<>>, <<"L">>},
     d : {<<>>, <<".", "o">>}]

\* the values of d the namelists are applied to: words, and a value of
\* two lines, as a variable of the environment may hold
Values ==
    {<<"l", ".", "c">>, <<"x", ".", "c">>, <<"l">>, <<".", "c">>,
     <<"l", "\n", ".", "c">>}

ValueLists == UNION {[1..n -> Values] : n \in 0..MaxValues}

\* the variables: d with the values vals, e
Table(vals) == (<<"d">> :> vals) @@ (<<"e">> :> <<(<<"z">>)>>)

\* the inputs with their variables: pieces in every order over two tables,
\* and every namelist, alone or before text, over every list of values
ExpandInputs ==
    ((UNION {[1..n -> Pieces] : n \in 1..MaxPieces})
        \X {Table(<<>>), Table(<<(<<"p", ".", "c">>), (<<"q">>)>>)})
    \cup ({<<Namelist(n.a, n.b, n.c, n.d)>> \o r :
              n \in NamelistParts, r \in {<<>>, <<(<<"x">>)>>}}
          \X {Table(vals) : vals \in ValueLists})

RECURSIVE Flat(_)
\* the string of a sequence of pieces
Flat(ps) == IF ps = <<>> THEN <<>> ELSE Head(ps) \o Flat(Tail(ps))

InitExpand ==
    /\ SchedIdle
    /\ exit = "running"
    /\ stderr = ""
    /\ amb = <<>>
    /\ pr = <<>>
    /\ \E inp \in ExpandInputs :
          xp = [pieces |-> inp[1], input |-> Flat(inp[1]), vs |-> inp[2],
                op |-> "none", out |-> <<>>]

\* expand is called on the input, as executeAssignment and parseRecipe do
ExpandWord ==
    /\ xp # <<>> /\ xp.op = "none"
    /\ xp' = [xp EXCEPT !.op = "word", !.out = expand(xp.input, xp.vs, TRUE)]
    /\ UNCHANGED <<schedVars, exit, stderr, amb, pr>>

\* expandRecipeSigils is called on the input, as parseRecipe and dorecipe do
ExpandRecipe ==
    /\ xp # <<>> /\ xp.op = "none"
    /\ xp' = [xp EXCEPT !.op = "recipe",
                        !.out = expandRecipeSigils(xp.input, xp.vs)]
    /\ UNCHANGED <<schedVars, exit, stderr, amb, pr>>

\* expandSigil is called on what follows the $ the input begins with
ExpandSigil ==
    /\ xp # <<>> /\ xp.op = "none"
    /\ xp.input[1] = "$"
    /\ xp' = [xp EXCEPT !.op = "sigil",
                        !.out = expandSigil(Tail(xp.input), xp.vs)]
    /\ UNCHANGED <<schedVars, exit, stderr, amb, pr>>

NextExpand ==
    \/ ExpandWord
    \/ ExpandRecipe
    \/ ExpandSigil

SpecExpand == InitExpand /\ [][NextExpand]_vars

(***************************************************************************)
(* Properties of expansion.                                                *)
(***************************************************************************)
\* the words of text followed by the words parts, the first of which
\* continues the text
Glue(text, parts) ==
    IF parts = <<>> THEN <<text>>
    ELSE <<text \o parts[1]>> \o Tail(parts)

\* the places of an input where a reference to an undefined variable
\* follows plain text only and, when it is bare, is not followed by a
\* character of a name
UndefinedAt(pieces) ==
    {k \in 1..Len(pieces) :
        /\ pieces[k] \in {UndefinedBare, UndefinedBraced}
        /\ \A h \in 1..(k - 1) : pieces[h] \in Literals
        /\ (pieces[k] = UndefinedBare /\ k < Len(pieces))
              => ~(isalnum(pieces[k + 1][1]) \/ pieces[k + 1][1] = "_")}

\* C19: a reference to a variable that is not defined, $u or ${u}, stands
\* in the result as it is written, after the text before it, and what
\* follows it is expanded as it is when expanded alone, in the expansion
\* of a word and in that of a recipe.
UndefinedKept ==
    xp # <<>> =>
        \A k \in UndefinedAt(xp.pieces) :
            LET before == Flat(SubSeq(xp.pieces, 1, k))
                after == Flat(SubSeq(xp.pieces, k + 1, Len(xp.pieces)))
            IN /\ xp.op = "word" =>
                     xp.out = Glue(before, expand(after, xp.vs, TRUE))
               /\ xp.op = "recipe" =>
                     xp.out = before \o expandRecipeSigils(after, xp.vs)

\* x${u}$d was expanded as a word, d being a list of two words
UndefinedBeforeList ==
    /\ xp # <<>>
    /\ xp.op = "word"
    /\ xp.pieces = <<(<<"x">>), UndefinedBraced, (<<"$", "d">>)>>
    /\ Len(xp.vs[<<"d">>]) = 2
    /\ xp.out = <<(<<"x", "$", "{", "u", "}", "p", ".", "c">>), (<<"q">>)>>

\* the middles X for which value is a X b
Middles(a, b, value) ==
    {X \in {SubSeq(value, lo, hi) :
               lo \in 1..(Len(value) + 1), hi \in 0..Len(value)} :
        value = a \o X \o b}

\* c X d for a value a X b, any other value itself
Substituted(n, value) ==
    IF Middles(n.a, n.b, value) = {} THEN value
    ELSE n.c \o (CHOOSE X \in Middles(n.a, n.b, value) : TRUE) \o n.d

\* the namelists the input of an expansion may begin with
NamelistOf(pieces) ==
    {n \in NamelistParts : pieces[1] = Namelist(n.a, n.b, n.c, n.d)}

\* C20: for a defined variable d, ${d:a%b=c%d} gives as many words as d
\* has values, in their order, c X d for each value a X b and the value
\* itself for any other.
NamelistMaps ==
    (xp # <<>> /\ xp.op = "sigil") =>
        \A n \in NamelistOf(xp.pieces) :
            /\ Len(xp.out.parts) = Len(xp.vs[<<"d">>])
            /\ \A i \in 1..Len(xp.out.parts) :
                  xp.out.parts[i] = Substituted(n, xp.vs[<<"d">>][i])

(***************************************************************************)
(* The parser.  parseInto reads the tokens of one file and gives each to   *)
(* the state function of the parser; an include calls parseInto again, so  *)
(* the calls in progress form a stack.  The tokens of a file are any       *)
(* tokens: the parser is followed on every stream of at most MaxTokens     *)
(* tokens, and the files an include names hold any tokens as well.         *)
(***************************************************************************)
\* the most tokens read in a parse, over all its files
MaxTokens == 5

\* the name of the special variable
MkfileDir == <<"m", "k", "f", "i", "l", "e", "d", "i", "r">>

\* the working directory of the process
Cwd == <<"/", "w">>

\* the mkfiles an include can open, beside the first: s/m and t/m
SubFile == <<"s", "/", "m">>

DeepFile == <<"t", "/", "m">>

Files == {SubFile, DeepFile}

\* filepath.Abs, of a name without . or .. elements
Abs(f) == IF f # <<>> /\ f[1] = "/" THEN f ELSE Cwd \o <<"/">> \o f

\* filepath.Dir, of a path without . or .. elements
Dir(path) ==
    IF \A k \in 1..Len(path) : path[k] # "/" THEN <<".">>
    ELSE IF \A k \in 2..Len(path) : path[k] # "/" THEN <<"/">>
    ELSE Take(path, (CHOOSE k \in 1..Len(path) :
                        /\ path[k] = "/"
                        /\ \A h \in (k + 1)..Len(path) : path[h] # "/") - 1)

\* the path main gives to parse: that of the file mkfile
MainPath == Abs(<<"m", "k", "f", "i", "l", "e">>)

\* tokens
Token(typ, val, col) == [typ |-> typ, val |-> val, col |-> col]

tokenNewline == Token("Newline", <<"\n">>, 0)

tokenColon == Token("Colon", <<":">>, 0)

tokenAssign == Token("Assign", <<"=">>, 0)

tokenPipeInclude == Token("PipeInclude", <<"<", "|">>, 0)

tokenRedirInclude == Token("RedirInclude", <<"<">>, 0)

\* a recipe of one line, indented by one space
tokenRecipe == Token("Recipe", <<" ", "r">>, 1)

tokenWord(v) == Token("Word", v, 0)

\* the words of the streams: a name, a reference to it, which is not a
\* name, the special variable, a file and an attribute
Words == {<<"x">>, <<"$", "x">>, MkfileDir, SubFile, <<"V">>}

Tokens ==
    {tokenNewline, tokenColon, tokenAssign, tokenPipeInclude,
     tokenRedirInclude, tokenRecipe} \cup {tokenWord(v) : v \in Words}

\* the variables parse is given: x names a file
Env == <<"x">> :> <<DeepFile>>

\* a map lookup: nil, the empty list, for a key that is absent
Lookup(vs, name) == IF name \in DOMAIN vs THEN vs[name] ELSE <<>>

\* the parser for a state function: the fields of parser, the variables
\* and rules of its ruleSet, and what the call ends with: an error, an
\* include to parse
Parser(f, vs, rs) ==
    [state |-> f.state, tokenbuf |-> f.tokenbuf, path |-> f.path,
     assigned |-> f.assigned, vars |-> vs, rules |-> rs, err |-> "",
     inc |-> <<>>]

push(p, tk) == [p EXCEPT !.tokenbuf = Append(@, tk)]

clear(p) == [p EXCEPT !.tokenbuf = <<>>]

return(p, state) == [p EXCEPT !.state = state]

\* parseError, basicErrorAtToken, basicErrorAtLine: all end in mkError
parseError(p, context) ==
    [p EXCEPT !.err = "syntax error: while " \o context]

basicErrorAtLine(p, what) == [p EXCEPT !.err = "syntax error: " \o what]

RECURSIVE ExpandAll(_, _)
\* the words of the tokens ts, each expanded with backquotes
ExpandAll(ts, vs) ==
    IF ts = <<>> THEN <<>>
    ELSE expand(ts[1].val, vs, TRUE) \o ExpandAll(Tail(ts), vs)

RECURSIVE Coalesce(_, _, _)
\* executeAssignment: the tokens from the k-th on, in assignment context:
\* a token that is not a word, and a word after one, continue the string
\* before them
Coalesce(ts, k, input) ==
    IF k > Len(ts) THEN input
    ELSE IF /\ ts[k].typ # "Word" \/ (k > 2 /\ ts[k - 1].typ # "Word")
            /\ Len(input) > 0
         THEN Coalesce(ts, k + 1,
                       [input EXCEPT ![Len(input)] = @ \o ts[k].val])
         ELSE Coalesce(ts, k + 1, Append(input, ts[k].val))

\* executeAssignment: the value, the words of the strings expanded
AssignmentValue(ts, vs) ==
    ExpandAll([k \in 1..Len(Coalesce(ts, 2, <<>>)) |->
                  [val |-> Coalesce(ts, 2, <<>>)[k]]], vs)

\* executeAssignment
executeAssignment(p) ==
    IF ~isValidVarName(p.tokenbuf[1].val)
    THEN basicErrorAtLine(p, "target of assignment is not a valid variable name")
    ELSE [p EXCEPT
            !.vars = (p.tokenbuf[1].val :> AssignmentValue(p.tokenbuf, p.vars))
                        @@ p.vars,
            !.assigned = @ \/ p.tokenbuf[1].val = MkfileDir]

\* parseAttribs: the characters read, up to a P or an S, which take all
\* that follows
AttribChars(inputs) ==
    Take(Flat(inputs),
         PrefixLen([i \in 1..Len(Flat(inputs)) |->
                      Flat(inputs)[i] \notin {"P", "S"}]))

\* stripIndentation, of a recipe of one line
stripIndentation(text, mincol) ==
    LET blank == [i \in 1..Len(text) |-> text[i] \in {" ", "\t", "\n"}]
    IN IF PrefixLen(blank) < mincol THEN Drop(text, PrefixLen(blank))
       ELSE Drop(text, mincol)

\* the index of the first colon of buf from k on, Len(buf) + 1 if none
NextColon(buf, k) ==
    IF \E h \in k..Len(buf) : buf[h].typ = "Colon"
    THEN CHOOSE h \in k..Len(buf) :
            /\ buf[h].typ = "Colon"
            /\ \A g \in k..(h - 1) : buf[g].typ # "Colon"
    ELSE Len(buf) + 1

\* the token is passed over at the top level
topLevelPassed(p, tk) == return(p, "TopLevel")

\* parseTopLevel
parseTopLevel(p, tk) ==
    IF tk.typ = "Newline" THEN return(p, "TopLevel")
    ELSE IF tk.typ = "PipeInclude" THEN return(p, "PipeInclude")
    ELSE IF tk.typ = "RedirInclude" THEN return(p, "RedirInclude")
    ELSE IF tk.typ = "Word" THEN return(push(p, tk), "EqualsOrTarget")
    ELSE parseError(p, "parsing mkfile")

\* parsePipeInclude; ok: the command of the include succeeds
parsePipeInclude(p, tk, ok) ==
    IF tk.typ = "Newline"
    THEN IF Len(p.tokenbuf) = 0
         THEN basicErrorAtLine(p, "empty pipe include")
         ELSE IF ~ok THEN basicErrorAtLine(p, "subprocess include failed")
         ELSE [p EXCEPT !.inc = <<p.path>>]
    ELSE IF tk.typ \in {"PipeInclude", "RedirInclude", "Colon", "Assign",
                        "Word"}
    THEN push(p, tk)
    ELSE parseError(p, "parsing piped include")

\* parseRedirInclude
parseRedirInclude(p, tk) ==
    LET open(filename) ==
            IF filename \in Files THEN [p EXCEPT !.inc = <<Abs(filename)>>]
            ELSE basicErrorAtLine(p, "cannot open")
        named(filename, expanded) ==
            IF Len(expanded) > 0 THEN open(expanded[1]) ELSE open(filename)
        joined(filename) == named(filename, expand(filename, p.vars, FALSE))
    IN IF tk.typ = "Newline"
       THEN joined(Flat([k \in 1..Len(p.tokenbuf) |-> p.tokenbuf[k].val]))
       ELSE IF tk.typ = "Word" THEN push(p, tk)
       ELSE parseError(p, "parsing include")

\* parseEqualsOrTarget
parseEqualsOrTarget(p, tk) ==
    IF tk.typ = "Assign" THEN return(p, "Assignment")
    ELSE IF tk.typ = "Word" THEN return(push(p, tk), "Targets")
    ELSE IF tk.typ = "Colon"
    THEN return(push(p, tk), "AttributesOrPrereqs")
    ELSE parseError(p, "reading a target or assignment")

\* parseAssignment
parseAssignment(p, tk) ==
    LET done(q) == IF q.err # "" THEN q ELSE return(clear(q), "TopLevel")
    IN IF tk.typ = "Newline" THEN done(executeAssignment(p))
       ELSE push(p, tk)

\* parseTargets
parseTargets(p, tk) ==
    IF tk.typ = "Word" THEN push(p, tk)
    ELSE IF tk.typ = "Colon"
    THEN return(push(p, tk), "AttributesOrPrereqs")
    ELSE parseError(p, "reading a rule's targets")

\* parseAttributesOrPrereqs
parseAttributesOrPrereqs(p, tk) ==
    IF tk.typ = "Newline" THEN return(p, "Recipe")
    ELSE IF tk.typ = "Colon" THEN return(push(p, tk), "Prereqs")
    ELSE IF tk.typ = "Word" THEN push(p, tk)
    ELSE parseError(p, "reading a rule's attributes or prerequisites")

\* parsePrereqs
parsePrereqs(p, tk) ==
    IF tk.typ = "Newline" THEN return(p, "Recipe")
    ELSE IF tk.typ = "Word" THEN push(p, tk)
    ELSE parseError(p, "reading a rule's prerequisites")

\* parseRecipe: the current token does not belong to the rule
notOfRule(p, tk) == parseTopLevel(p, tk)

\* parseRecipe: the rule of the tokens read is assembled and added, and a
\* token that is not its recipe is given to parseTopLevel
parseRecipe(p, tk) ==
    LET buf == p.tokenbuf
        rule(i, j, chars, targets) ==
            [targets |-> targets,
             attributes |-> {chars[k] : k \in 1..Len(chars)},
             ismeta |-> \/ \E k \in 1..Len(chars) : chars[k] = "R"
                        \/ \E k \in 1..Len(targets) :
                              \E h \in 1..Len(targets[k]) :
                                 targets[k][h] = "%",
             prereqs |-> ExpandAll(SubSeq(buf, j + 1, Len(buf)), p.vars),
             recipe |-> IF tk.typ = "Recipe"
                        THEN expandRecipeSigils(
                                 stripIndentation(tk.val, tk.col), p.vars)
                        ELSE <<>>]
        added(r) ==
            IF tk.typ # "Recipe"
            THEN notOfRule(clear([p EXCEPT !.rules = Append(@, r)]), tk)
            ELSE return(clear([p EXCEPT !.rules = Append(@, r)]),
                        "TopLevel")
        attribs(i, j, chars) ==
            IF \E k \in 1..Len(chars) :
                  chars[k] \notin {"D", "E", "N", "n", "Q", "R", "U", "V",
                                   "X"}
            THEN basicErrorAtLine(p, "expected an attribute")
            ELSE added(rule(i, j, chars,
                            ExpandAll(SubSeq(buf, 1, i - 1), p.vars)))
        colons(i, j) ==
            IF j <= Len(buf)
            THEN attribs(i, j,
                         AttribChars(ExpandAll(SubSeq(buf, i + 1, j - 1),
                                               p.vars)))
            ELSE attribs(i, i, <<>>)
    IN colons(NextColon(buf, 1), NextColon(buf, NextColon(buf, 1) + 1))

\* state(p, t): the state functions by the names of their states
StateFun(p, tk, ok) ==
    CASE p.state = "TopLevel" -> parseTopLevel(p, tk)
      [] p.state = "PipeInclude" -> parsePipeInclude(p, tk, ok)
      [] p.state = "RedirInclude" -> parseRedirInclude(p, tk)
      [] p.state = "EqualsOrTarget" -> parseEqualsOrTarget(p, tk)
      [] p.state = "Assignment" -> parseAssignment(p, tk)
      [] p.state = "Targets" -> parseTargets(p, tk)
      [] p.state = "AttributesOrPrereqs" -> parseAttributesOrPrereqs(p, tk)
      [] p.state = "Prereqs" -> parsePrereqs(p, tk)
      [] p.state = "Recipe" -> parseRecipe(p, tk)

\* the locals of a call of parseInto on the file at path, vs being the
\* variables when it is called
Frame(path, vs) ==
    [path |-> path, state |-> "TopLevel", tokenbuf |-> <<>>,
     oldmkfiledir |-> Lookup(vs, MkfileDir), closing |-> FALSE,
     assigned |-> FALSE]

\* p.rules.vars["mkfiledir"] = []string{filepath.Dir(path)}
SetDir(vs, path) == (MkfileDir :> <<Dir(path)>>) @@ vs

\* mkfiledir is left as the file parsed set it
restoreNothing(vs, old) == vs

\* p.rules.vars["mkfiledir"] = oldmkfiledir
restore(vs, old) == (MkfileDir :> old) @@ vs

\* all but the last
Front(q) == SubSeq(q, 1, Len(q) - 1)

RECURSIVE Unwind(_, _)
\* the end of the call of parseInto on top of the stack: mkfiledir is
\* restored, and the include that called it clears the tokens and goes to
\* the top level; when the include was the work of the dummy newline of
\* its file, that call ends in turn
Unwind(stack, vs) ==
    LET resumed(rest, f, vs1) ==
            IF f.closing THEN Unwind(Append(rest, f), vs1)
            ELSE [stack |-> Append(rest, f), vars |-> vs1]
        popped(rest, vs1) ==
            IF rest = <<>> THEN [stack |-> <<>>, vars |-> vs1]
            ELSE resumed(Front(rest),
                         [rest[Len(rest)] EXCEPT !.state = "TopLevel",
                                                 !.tokenbuf = <<>>],
                         vs1)
    IN popped(Front(stack), restore(vs, stack[Len(stack)].oldmkfiledir))

\* the file being parsed
Top == pr.stack[Len(pr.stack)]

Parsing == pr # <<>> /\ exit = "running" /\ pr.stack # <<>>

\* history: what the state function was given and what it left
Last(r, typ) ==
    [typ |-> typ, from |-> Top.state, buf |-> Top.tokenbuf,
     depth |-> Len(pr.stack), vars |-> pr.vars, rules |-> pr.rules,
     to |-> r.state, after |-> r.vars, added |-> r.rules]

\* the frame on top with what the state function left
Stepped(r, closing) ==
    Append(Front(pr.stack),
           [Top EXCEPT !.state = r.state, !.tokenbuf = r.tokenbuf,
                       !.assigned = r.assigned, !.closing = closing])

\* parseInto after a call state(p, t) that left r: mkError ends the
\* process; an include calls parseInto; the dummy newline is followed by
\* the end of the call
\* the tokens read: the dummy newline is not one
Count(closing) == IF closing THEN pr.n ELSE pr.n + 1

Advance(r, typ, closing) ==
    IF r.err # ""
    THEN /\ mkError(r.err)
         /\ pr' = [pr EXCEPT !.last = Last(r, typ), !.n = Count(closing)]
    ELSE /\ UNCHANGED <<exit, stderr>>
         /\ IF r.inc # <<>>
            THEN pr' = [pr EXCEPT
                          !.stack = Append(Stepped(r, closing),
                                           Frame(r.inc[1], r.vars)),
                          !.vars = SetDir(r.vars, r.inc[1]),
                          !.rules = r.rules,
                          !.last = Last(r, typ),
                          !.n = Count(closing)]
            ELSE IF closing
            THEN pr' = [pr EXCEPT
                          !.stack = Unwind(Stepped(r, closing),
                                           r.vars).stack,
                          !.vars = Unwind(Stepped(r, closing), r.vars).vars,
                          !.rules = r.rules,
                          !.last = Last(r, typ),
                          !.n = Count(closing)]
            ELSE pr' = [pr EXCEPT !.stack = Stepped(r, closing),
                                  !.vars = r.vars,
                                  !.rules = r.rules,
                                  !.last = Last(r, typ),
                                  !.n = Count(closing)]

InitParse ==
    /\ SchedIdle
    /\ exit = "running"
    /\ stderr = ""
    /\ amb = <<>>
    /\ xp = <<>>
    /\ pr = [stack |-> <<Frame(MainPath, Env)>>,
             vars |-> SetDir(Env, MainPath),
             rules |-> <<>>,
             n |-> 0,
             last |-> [typ |-> "none"]]

\* parseInto: the loop takes a token from the lexer
ParseToken(tk, ok) ==
    /\ Parsing /\ pr.n < MaxTokens
    /\ Advance(StateFun(Parser(Top, pr.vars, pr.rules), tk, ok), tk.typ,
               FALSE)
    /\ UNCHANGED <<schedVars, amb, xp>>

\* parseInto: the lexer gives an error token
ParseTokenError ==
    /\ Parsing /\ pr.n < MaxTokens
    /\ mkError("syntax error: lexer")
    /\ pr' = [pr EXCEPT !.last = [typ |-> "Error"], !.n = @ + 1]
    /\ UNCHANGED <<schedVars, amb, xp>>

\* parseInto: the tokens have ended; the dummy newline, then mkfiledir is
\* restored and the call returns
ParseEnd(ok) ==
    /\ Parsing
    /\ Advance(StateFun(Parser(Top, pr.vars, pr.rules), tokenNewline, ok),
               "end", TRUE)
    /\ UNCHANGED <<schedVars, amb, xp>>

NextParse ==
    \/ \E tk \in Tokens, ok \in BOOLEAN : ParseToken(tk, ok)
    \/ ParseTokenError
    \/ \E ok \in BOOLEAN : ParseEnd(ok)

SpecParse == InitParse /\ [][NextParse]_vars

(***************************************************************************)
(* Properties of the parser.                                               *)
(***************************************************************************)
\* the input of the file on top ended and the dummy newline was given to
\* the state function of the state from
EndedIn(from) ==
    /\ pr # <<>>
    /\ pr.last.typ = "end"
    /\ pr.last.from \in from

\* C16: when the input ends inside an assignment or inside the header of a
\* rule, after its first colon, the end of the input finishes the
\* statement: the assignment is stored, or the rule, without a recipe, is
\* added to the rules, and the parser ends at the top level.
EndFinalizes ==
    /\ (EndedIn({"Assignment"}) /\ exit = "running") =>
          /\ pr.last.buf[1].val \in DOMAIN pr.last.after
          /\ pr.last.after[pr.last.buf[1].val]
                = AssignmentValue(pr.last.buf, pr.last.vars)
          /\ pr.last.to = "TopLevel"
    /\ EndedIn({"AttributesOrPrereqs", "Prereqs"}) =>
          /\ Len(pr.last.added) = Len(pr.last.rules) + 1
          /\ pr.last.added[Len(pr.last.added)].recipe = <<>>
          /\ pr.last.to = "TopLevel"

\* a step in which the parse of an included file returns into the file
\* that included it
IncludeReturns ==
    /\ Parsing
    /\ pr'.stack # <<>>
    /\ Len(pr'.stack) < Len(pr.stack)

\* the value mkfiledir had when the file that is resumed started its
\* include: what the call for the included file found
BeforeInclude == pr.stack[Len(pr'.stack) + 1].oldmkfiledir

\* C17: while a file is parsed mkfiledir is the directory of that file,
\* and when the parse of an included file returns mkfiledir is what it was
\* just before the include, however deep the includes are.
MkfiledirOfFile ==
    /\ [](Parsing => pr.vars[MkfileDir] = <<Dir(Top.path)>>)
    /\ [][IncludeReturns => pr'.vars[MkfileDir] = BeforeInclude]_vars

\* C17, as it holds: while a file is parsed, and until that file assigns
\* mkfiledir itself, mkfiledir is the directory of that file; when the
\* parse of an included file returns mkfiledir is what it was just before
\* the include, however deep the includes are.
MkfiledirUntilAssigned ==
    /\ [](Parsing /\ ~Top.assigned
             => pr.vars[MkfileDir] = <<Dir(Top.path)>>)
    /\ [][IncludeReturns => pr'.vars[MkfileDir] = BeforeInclude]_vars

\* mkfile included s/m, whose last line included t/m: at the end of t/m
\* both calls returned, and mkfiledir is the directory of mkfile again
ReturnedThroughTwo ==
    /\ Parsing
    /\ pr.last.typ = "end"
    /\ pr.last.depth = 3
    /\ pr.last.vars[MkfileDir] = <<Dir(Abs(DeepFile))>>
    /\ Len(pr.stack) = 1
    /\ pr.vars[MkfileDir] = <<Cwd>>

\* the letters and the digits of a name
Letter ==
    {"a", "b", "c", "d", "e", "f", "g", "h", "i", "j", "k", "l", "m", "n",
     "o", "p", "q", "r", "s", "t", "u", "v", "w", "x", "y", "z", "A", "B",
     "C", "D", "E", "F", "G", "H", "I", "J", "K", "L", "M", "N", "O", "P",
     "Q", "R", "S", "T", "U", "V", "W", "X", "Y", "Z"}

Digit == {"0", "1", "2", "3", "4", "5", "6", "7", "8", "9"}

\* [A-Za-z_][A-Za-z0-9_]*, the whole string
NameShape(v) ==
    /\ Len(v) >= 1
    /\ v[1] \in Letter \cup {"_"}
    /\ \A k \in 2..Len(v) : v[k] \in Letter \cup Digit \cup {"_"}

\* an assignment was ended, by a newline or by the end of the input
AssignmentEnded ==
    /\ pr # <<>>
    /\ pr.last.typ \in {"Newline", "end"}
    /\ pr.last.from = "Assignment"

AllNodes == UNION {DOMAIN g.prereqs : g \in Scenarios}

\* the builders in the deferred function of n, sending to its listeners
Notifiers(n) ==
    {b \in DOMAIN builders : builders[b].u = n /\ builders[b].pc = "notify"}

\* how many listeners of n have got their value in the running deferred loop
Sent(n) ==
    IF Notifiers(n) = {} THEN 0
    ELSE builders[CHOOSE b \in Notifiers(n) : TRUE].i - 1

\* the registrations of builder w on n that have not been sent to
Outstanding(w, n) ==
    {k \in (Sent(n) + 1)..Len(listeners[n]) : listeners[n][k][1] = w}

RECURSIVE SumOver(_, _)
SumOver(S, w) ==
    IF S = {} THEN 0
    ELSE LET n == CHOOSE x \in S : TRUE
         IN Cardinality(Outstanding(w, n)) + SumOver(S \ {n}, w)

\* what a builder still has to receive is what its channel is registered
\* for and has not been sent: no send without a registration, no
\* registration dropped without a send, none served twice; the value sent is
\* the final status of the builder that sends
ListenersAccounted ==
    /\ \A w \in DOMAIN builders :
          SumOver(Nodes, w) =
             IF builders[w].pc \in {"prereqs", "wait"}
             THEN builders[w].pending ELSE 0
    /\ \A n \in Nodes : \A b \in Notifiers(n) :
          /\ mutex[n] = b
          /\ Notifiers(n) = {b}
          /\ status[n] = builders[b].finalstatus
          /\ builders[b].i \in 1..Len(listeners[n])

\* a step in which a builder of n ends its deferred function leaves n
\* without listeners
DrainedOnReturn ==
    \A n \in Nodes : \A b \in BuildersOf(n) :
        (builders[b].pc \in {"fin", "notify"} /\ Running
           /\ (b \notin DOMAIN builders' \/ exit' = "returned"))
        => listeners'[n] = <<>>

\* n has a listener that has not been sent to, in the running build
Registered(n) ==
    n \in Nodes /\ Running /\ Len(listeners[n]) > Sent(n)

\* C27: every channel registered as a listener of a node gets one value, the
\* final status of the builder that drains the list, neither none nor two,
\* and the list is empty when that builder has finalized the node, in every
\* interleaving of the registrations and the finalizations.
ListenerNotifiedOnce ==
    /\ []ListenersAccounted
    /\ [][DrainedOnReturn]_vars
    /\ \A n \in AllNodes :
          Registered(n) ~> (~Running \/ (n \in Nodes /\ listeners[n] = <<>>))

\* C27, what holds: the accounting of the registrations and the sends, and
\* the empty list at the end of the deferred function
ListenersNeverLostOrDoubled ==
    []ListenersAccounted /\ [][DrainedOnReturn]_vars

\* C27, how a registration is left without its value: only in a state in
\* which no goroutine can run
ListenerNotifiedUnlessStuck ==
    \A n \in AllNodes :
        Registered(n)
           ~> (~Running \/ (n \in Nodes /\ listeners[n] = <<>>)
                 \/ ~ENABLED Next)

\* the builders that own n: mkNode has set it Started and has not returned
Owners(n) == {b \in BuildersOf(n) : builders[b].pc # "claim"}

\* a node has one owner at most, and while the process runs it is Started
\* as long as its owner has not set the final status
OneOwner ==
    \A n \in Nodes :
        /\ Cardinality(Owners(n)) <= 1
        /\ Running =>
              /\ status[n] = nodeStatusStarted =>
                    \E b \in Owners(n) : builders[b].pc # "notify"
              /\ \A b \in Owners(n) :
                    builders[b].pc # "notify" => status[n] = nodeStatusStarted

\* the step of a builder that finds its node neither Ready nor Nop: it
\* returns, the node as it was
TurnedAway ==
    \A b \in DOMAIN builders :
        LET u == builders[b].u IN
        (/\ builders[b].pc = "claim"
         /\ status[u] \notin {nodeStatusReady, nodeStatusNop}
         /\ (b \notin DOMAIN builders' \/ builders'[b] # builders[b]))
        => /\ b \notin DOMAIN builders'
           /\ status'[u] = status[u] /\ listeners'[u] = listeners[u]
           /\ t'[u] = t[u] /\ exists'[u] = exists[u]
           /\ mutex'[u] = mutex[u]

\* Done and Failed are kept
TerminalKept ==
    \A n \in Nodes :
        status[n] \in {nodeStatusDone, nodeStatusFailed}
           => status'[n] = status[n]

\* C28: at any instant a node has at most one owner, a builder between the
\* claim that sets Started and the end of its finalization; a builder that
\* finds the status neither Ready nor Nop returns and leaves the node as it
\* is; a node that is Done or Failed stays so.
SingleOwner ==
    []OneOwner /\ [][TurnedAway /\ TerminalKept]_vars

\* C28, its case: a node that has been finalized Done while a second
\* builder started for it has still to try the claim, and a node owned by
\* one builder with a second one at the claim.
OwnerAndLatecomer ==
    /\ \E n \in Nodes :
          /\ status[n] = nodeStatusDone
          /\ \E b \in BuildersOf(n) : builders[b].pc = "claim"
    /\ \E n \in Nodes :
          /\ Owners(n) # {}
          /\ \E b \in BuildersOf(n) : builders[b].pc = "claim"

\* the builders of an exclusive recipe that have taken exclusiveSubproc and
\* the free slots: waiting in Cond.Wait for the slots in use, or with all of
\* them, before finishExclusiveSubproc has ended
ExclusiveReserved ==
    {b \in DOMAIN builders :
        /\ exclusiveSubproc = b
        /\ builders[b].pc \in {"condwait", "recipe", "finish"}
        /\ NodeRule(builders[b].u).exclusive}

\* a step in which reserveSubproc returns in builder b: its slot is granted
\* and its recipe starts
Granted(b) ==
    /\ b \in DOMAIN builders /\ b \in DOMAIN builders'
    /\ builders[b].pc = "reserve" /\ builders'[b].pc = "recipe"
    /\ ~NodeRule(builders[b].u).exclusive

\* C29: from the step in which an exclusive reservation, holding the
\* exclusive lock, has taken the free slots to the end of the exclusive
\* recipe no ordinary reservation is granted: no ordinary recipe starts
\* while an exclusive one waits for the slots in use or runs.
NoGrantUnderExclusive ==
    [][\A b \in DOMAIN builders : Granted(b) => ExclusiveReserved = {}]_vars

\* C29, what holds: no ordinary reservation is granted while an exclusive
\* reservation has all the slots, its recipe running
NoGrantWhileExclusiveRuns ==
    [][\A b \in DOMAIN builders :
          Granted(b) =>
             \A x \in ExclusiveReserved : builders[x].pc = "condwait"]_vars

(***************************************************************************)
(* expandSuffixes, one step for each turn of its loop.  xp holds the       *)
(* arguments, the locals i and expanded, and where the call is: in the     *)
(* loop, returned, or ended in the run-time panic of a slice input[i:j]    *)
(* with j < i.                                                             *)
(***************************************************************************)
MaxPattern == 4

MaxExpanded == 8

Backslash == "\\"

Percent == "%"

RECURSIVE StringsUpTo(_, _)
StringsUpTo(alphabet, n) ==
    IF n = 0 THEN {<<>>}
    ELSE LET shorter == StringsUpTo(alphabet, n - 1)
         IN shorter \cup {Append(x, c) : x \in shorter, c \in alphabet}

\* the prereq patterns and the stems
Patterns == StringsUpTo({Percent, Backslash, "a"}, MaxPattern)

Stems == {<<"s">>, <<"s", "t">>}

\* the body of the loop after IndexAny has found a character at j: c and w
\* are the rune at input[j:] and its width
suffixesFound(x, j, c, w) ==
    IF j < x.i
    THEN [x EXCEPT !.pc = "panic"]
    ELSE LET added == x.expanded \o SubSeq(x.input, x.i + 1, j)
             after == Drop(x.input, j + w)
         IN IF c = Percent
            THEN [x EXCEPT !.expanded = added \o x.stem, !.i = j + w]
            ELSE IF Rune(after) = Percent
                 THEN [x EXCEPT !.expanded = Append(added, Percent),
                                !.i = j + w + Width(after)]
                 ELSE [x EXCEPT !.expanded = added]

\* one turn of the loop: j is what IndexAny gives for input[i:], and the
\* rune is decoded at input[j:]
suffixesTurn(x, j) ==
    IF j < 0
    THEN [x EXCEPT !.expanded = @ \o Drop(x.input, x.i), !.pc = "return"]
    ELSE suffixesFound(x, j, Rune(Drop(x.input, j)), Width(Drop(x.input, j)))

InitSuffixes ==
    /\ SchedIdle
    /\ exit = "running"
    /\ stderr = ""
    /\ amb = <<>>
    /\ pr = <<>>
    /\ \E input \in Patterns, stem \in Stems :
          xp = [input |-> input, stem |-> stem, i |-> 0, expanded |-> <<>>,
                pc |-> "loop", turns |-> 0]

\* the test of the loop holds and its body is executed
SuffixesTurn ==
    /\ xp.pc = "loop" /\ xp.i < Len(xp.input)
    /\ Len(xp.expanded) <= MaxExpanded
    /\ xp' = [suffixesTurn(xp, IndexAny(Drop(xp.input, xp.i),
                                         {Backslash, Percent}))
                EXCEPT !.turns = IF @ < 2 THEN @ + 1 ELSE @]
    /\ UNCHANGED <<schedVars, exit, stderr, amb, pr>>

\* the test of the loop fails
SuffixesReturn ==
    /\ xp.pc = "loop" /\ xp.i >= Len(xp.input)
    /\ xp' = [xp EXCEPT !.pc = "return"]
    /\ UNCHANGED <<schedVars, exit, stderr, amb, pr>>

NextSuffixes ==
    \/ SuffixesTurn
    \/ SuffixesReturn

SpecSuffixes == InitSuffixes /\ [][NextSuffixes]_vars

\* the pattern with the stem for each % and % for each \%
RECURSIVE Replaced(_, _)
Replaced(input, stem) ==
    IF input = <<>> THEN <<>>
    ELSE IF input[1] = Percent THEN stem \o Replaced(Tail(input), stem)
    ELSE IF input[1] = Backslash /\ Len(input) > 1 /\ input[2] = Percent
         THEN <<Percent>> \o Replaced(Drop(input, 2), stem)
    ELSE <<input[1]>> \o Replaced(Tail(input), stem)

\* C23: for every pattern and stem expandSuffixes ends, each turn of its
\* loop that does not end it going further in the pattern, and it returns
\* the pattern with the stem for every % that is not escaped and % for every
\* \%, the other characters as they are.
SuffixesExpanded ==
    /\ [](xp.pc = "return" => xp.expanded = Replaced(xp.input, xp.stem))
    /\ [](xp.pc # "panic")
    /\ [][xp'.pc = "loop" => xp'.i > xp.i]_vars

\* C23, what holds: a pattern with one % and no backslash is expanded as
\* said, in one turn or two
SuffixesOfOnePercent ==
    (/\ xp.pc = "return"
     /\ Cardinality({k \in 1..Len(xp.input) : xp.input[k] = Percent}) = 1
     /\ \A k \in 1..Len(xp.input) : xp.input[k] # Backslash)
    => xp.expanded = Replaced(xp.input, xp.stem)

(***************************************************************************)
(* Double quotes in the expansion of a word: the calls of SpecExpand on    *)
(* inputs with quoted fragments.                                           *)
(***************************************************************************)
Quote == "\""

\* "interior"
Quoted(interior) == <<Quote>> \o interior \o <<Quote>>

\* what stands between the quotes: text, text with a space, a reference
Interiors == {<<"a">>, <<"a", " ", "c">>, <<"$", "d">>}

QuotedPieces == {Quoted(x) : x \in Interiors}

\* the inputs: quoted fragments, plain text and a reference in every order
QuotedInputs ==
    (UNION {[1..n -> QuotedPieces \cup Literals \cup {<<"b">>, <<"$", "d">>}] :
               n \in 1..MaxPieces})
    \X {Table(<<(<<"p">>)>>), Table(<<(<<"p">>), (<<"q">>)>>)}

InitQuoted ==
    /\ SchedIdle
    /\ exit = "running"
    /\ stderr = ""
    /\ amb = <<>>
    /\ pr = <<>>
    /\ \E inp \in QuotedInputs :
          xp = [pieces |-> inp[1], input |-> Flat(inp[1]), vs |-> inp[2],
                op |-> "none", out |-> <<>>]

SpecQuoted == InitQuoted /\ [][NextExpand]_vars

\* the places of an input where a quoted fragment follows plain text only
QuotedAt(pieces) ==
    {k \in 1..Len(pieces) :
        /\ pieces[k] \in QuotedPieces
        /\ \A h \in 1..(k - 1) : pieces[h] \in Literals \cup {<<"b">>}}

\* the interior of a quoted piece
Interior(piece) == SubSeq(piece, 2, Len(piece) - 1)

\* C24: in the expansion of a word a quoted fragment ends at its first
\* closing quote that is not escaped and takes the characters up to and
\* with that quote: the expansion of its interior, its words joined by
\* spaces, goes on the word under way, and what follows the closing quote
\* is expanded as it is when expanded alone, its first word going on the
\* same word ("a"b gives the one word ab).
QuotedInWord ==
    (xp # <<>> /\ xp.op = "word") =>
        \A k \in QuotedAt(xp.pieces) :
            LET before == Flat(SubSeq(xp.pieces, 1, k - 1))
                after == Flat(SubSeq(xp.pieces, k + 1, Len(xp.pieces)))
                inside == Join(expand(Interior(xp.pieces[k]), xp.vs, TRUE),
                               <<" ">>)
            IN xp.out = Glue(before \o inside, expand(after, xp.vs, TRUE))

\* C24, what holds: a quoted fragment that ends the input gives its
\* interior on the word under way
QuotedAtEnd ==
    (xp # <<>> /\ xp.op = "word") =>
        \A k \in QuotedAt(xp.pieces) :
            k = Len(xp.pieces) =>
                xp.out =
                   <<Flat(SubSeq(xp.pieces, 1, k - 1))
                       \o Join(expand(Interior(xp.pieces[k]), xp.vs, TRUE),
                               <<" ">>)>>

(***************************************************************************)
(* From an assignment to the recipe that is executed.  A file of two       *)
(* statements, NAME = words and a rule t: with a recipe that refers to     *)
(* ${NAME}, is given to the state functions token by token, and dorecipe   *)
(* then makes the input of the shell from the recipe of the rule.          *)
(***************************************************************************)
MaxWords == 3

Name == <<"N">>

\* the words of the assignment as they are written: plain words and a
\* quoted word
AssignedWords ==
    {<<"v">>, <<"w", ".", "c">>, <<"-", "a">>,
     <<"'", "$", "t", "a", "r", "g", "e", "t", "'">>}

\* the text of the recipe before and after the reference
RecipeFrames ==
    {<<(<<" ", "e", " ">>), (<<>>)>>,
     <<(<<" ">>), (<<" ", "e">>)>>,
     <<(<<" ", "e", "=">>), (<<".", "\n">>)>>}

Reference == <<"$", "{">> \o Name \o <<"}">>

\* the tokens of the file
RoundTripFile(words, frame) ==
    <<tokenWord(Name), tokenAssign>>
       \o [k \in 1..Len(words) |-> tokenWord(words[k])]
       \o <<tokenNewline, tokenWord(<<"t">>), tokenColon, tokenNewline,
            Token("Recipe", frame[1] \o Reference \o frame[2], 1)>>

\* dorecipe: the variables of the recipe of rule r for target, whose
\* prereqs by that rule are prereqs
recipeVars(target, r, prereqs, stem) ==
    (<<"t", "a", "r", "g", "e", "t">> :> <<target>>)
       @@ (<<"p", "r", "e", "r", "e", "q">> :> prereqs)
       @@ (IF r.ismeta /\ "R" \notin r.attributes
           THEN <<"s", "t", "e", "m">> :> <<stem>>
           ELSE <<>>)

\* dorecipe: the input of the shell
recipeInput(target, r, prereqs, stem) ==
    expandRecipeSigils(r.recipe, recipeVars(target, r, prereqs, stem))

InitRoundTrip ==
    /\ SchedIdle
    /\ exit = "running"
    /\ stderr = ""
    /\ amb = <<>>
    /\ xp = <<>>
    /\ \E n \in 1..MaxWords : \E words \in [1..n -> AssignedWords] :
       \E frame \in RecipeFrames :
          pr = [p |-> Parser(Frame(MainPath, Env),
                            SetDir(Env, MainPath), <<>>),
                rest |-> RoundTripFile(words, frame),
                frame |-> frame, input |-> <<>>, pc |-> "parse"]

\* the state function is called on the next token of the file
RoundTripToken ==
    /\ pr.pc = "parse" /\ pr.rest # <<>>
    /\ pr' = [pr EXCEPT !.p = StateFun(pr.p, Head(pr.rest), TRUE),
                        !.rest = Tail(@)]
    /\ UNCHANGED <<schedVars, exit, stderr, amb, xp>>

\* the file is read: dorecipe is called for the target t and its rule
RoundTripRecipe ==
    /\ pr.pc = "parse" /\ pr.rest = <<>>
    /\ pr' = [pr EXCEPT !.pc = "executed",
                        !.input = recipeInput(<<"t">>, pr.p.rules[1],
                                              <<>>, <<>>)]
    /\ UNCHANGED <<schedVars, exit, stderr, amb, xp>>

NextRoundTrip ==
    \/ RoundTripToken
    \/ RoundTripRecipe

SpecRoundTrip == InitRoundTrip /\ [][NextRoundTrip]_vars

\* the recipe with the values for the reference, without the character
\* of its indentation
WithValues(frame, values) ==
    Drop(frame[1], 1) \o Join(values, <<" ">>) \o frame[2]

\* C21: after an assignment NAME = v1 v2 v3 and a rule whose recipe refers
\* to ${NAME}, the text given to the shell has the values assigned, in
\* their order with one space between them, where the reference is.
ValuesRoundTrip ==
    pr.pc = "executed" => pr.input = WithValues(pr.frame, pr.p.vars[Name])

\* C21, what holds: the recipe of the rule as parseRecipe stores it has the
\* values assigned where the reference is, and so has the text given to the
\* shell when no value holds a $
ValuesInStoredRecipe ==
    pr.pc = "executed" =>
        LET text == WithValues(pr.frame, pr.p.vars[Name])
        IN /\ pr.p.rules[1].recipe = text
           /\ (\A k \in 1..Len(text) : text[k] # "$") => pr.input = text

(***************************************************************************)
(* applyrules, whole: the graph of a target over the rules parseRecipe     *)
(* has added.  A graph is the nodes newnode has made, numbered in the      *)
(* order of their making (names, and for each its edges u.prereqs), and    *)
(* the map g.nodes from names to nodes (ids); the node of an edge is its   *)
(* number, 0 for nil.                                                      *)
(***************************************************************************)
maxRuleCnt == 1

MaxContext == 2

\* the pattern of a target is a regular expression, or has a %
IsRegex(r) == "R" \in r.attributes

HasPercent(str) == \E h \in 1..Len(str) : str[h] = Percent

\* the atoms of a regular expression of the forms used here: ^, $, the
\* group (.*), the dot, an escaped character and a plain one
RECURSIVE Atoms(_)
Atoms(pat) ==
    IF pat = <<>> THEN <<>>
    ELSE IF Len(pat) >= 4 /\ Take(pat, 4) = <<"(", ".", "*", ")">>
    THEN <<[a |-> "group"]>> \o Atoms(Drop(pat, 4))
    ELSE IF pat[1] = Backslash /\ Len(pat) >= 2
    THEN <<[a |-> "lit", c |-> pat[2]]>> \o Atoms(Drop(pat, 2))
    ELSE IF pat[1] = "^" THEN <<[a |-> "bol"]>> \o Atoms(Tail(pat))
    ELSE IF pat[1] = "$" THEN <<[a |-> "eol"]>> \o Atoms(Tail(pat))
    ELSE IF pat[1] = "." THEN <<[a |-> "any"]>> \o Atoms(Tail(pat))
    ELSE <<[a |-> "lit", c |-> pat[1]]>> \o Atoms(Tail(pat))

RECURSIVE MatchesAt(_, _, _, _)
\* the submatches with which the atoms match str from offset pos on
MatchesAt(atoms, str, pos, caps) ==
    IF atoms = <<>> THEN {caps}
    ELSE IF atoms[1].a = "bol"
    THEN IF pos = 0 THEN MatchesAt(Tail(atoms), str, pos, caps) ELSE {}
    ELSE IF atoms[1].a = "eol"
    THEN IF pos = Len(str) THEN MatchesAt(Tail(atoms), str, pos, caps)
         ELSE {}
    ELSE IF atoms[1].a = "any"
    THEN IF pos < Len(str) /\ str[pos + 1] # "\n"
         THEN MatchesAt(Tail(atoms), str, pos + 1, caps) ELSE {}
    ELSE IF atoms[1].a = "lit"
    THEN IF pos < Len(str) /\ str[pos + 1] = atoms[1].c
         THEN MatchesAt(Tail(atoms), str, pos + 1, caps) ELSE {}
    ELSE UNION {MatchesAt(Tail(atoms), str, pos + n,
                          Append(caps, SubSeq(str, pos + 1, pos + n))) :
                   n \in {m \in 0..(Len(str) - pos) :
                             \A h \in (pos + 1)..(pos + m) : str[h] # "\n"}}

\* the longer first group: .* is greedy
Greedy(ms) ==
    CHOOSE m \in ms : \A o \in ms : Len(o) = 0 \/ Len(o[1]) <= Len(m[1])

\* Regexp.FindStringSubmatch for an expression anchored at both ends: the
\* whole match and the submatches, or nil
FindStringSubmatch(pat, str) ==
    IF MatchesAt(Atoms(pat), str, 0, <<>>) = {} THEN Nil
    ELSE <<str>> \o Greedy(MatchesAt(Atoms(pat), str, 0, <<>>))

\* the offset of the first % of a target
PercentAt(str) == IndexAny(str, {Percent})

\* the match of the expression of a target with a %: the whole and the stem
stemOf(found, str) == IF found = Nil THEN Nil ELSE <<str, found>>

\* pattern.match for target j of rule r, as parseRecipe has compiled it:
\* "^" + target + "$" under R, "^" left "(.*)" right "$" with the two sides
\* quoted for a target with a %, else the comparison with spat
match(r, j, str) ==
    IF IsRegex(r)
    THEN FindStringSubmatch(<<"^">> \o r.targets[j] \o <<"$">>, str)
    ELSE IF HasPercent(r.targets[j])
    THEN stemOf(valueMatch(Take(r.targets[j], PercentAt(r.targets[j])),
                           Drop(r.targets[j], PercentAt(r.targets[j]) + 1),
                           str), str)
    ELSE IF str = r.targets[j] THEN <<>> ELSE Nil

\* ruleSet.add: rs.targetrules[target], the rules with the plain target
RECURSIVE targetrules(_, _, _)
targetrules(rs, str, k) ==
    IF k > Len(rs) THEN <<>>
    ELSE [i \in 1..Cardinality({h \in 1..Len(rs[k].targets) :
                                   /\ ~IsRegex(rs[k])
                                   /\ ~HasPercent(rs[k].targets[h])
                                   /\ rs[k].targets[h] = str}) |-> k]
            \o targetrules(rs, str, k + 1)

RECURSIVE suffixesRun(_, _)
\* the loop of expandSuffixes, for at most fuel turns
suffixesRun(x, fuel) ==
    IF x.pc # "loop" THEN x
    ELSE IF x.i >= Len(x.input) THEN [x EXCEPT !.pc = "return"]
    ELSE IF fuel = 0 THEN x
    ELSE suffixesRun(suffixesTurn(x, IndexAny(Drop(x.input, x.i),
                                              {Backslash, Percent})),
                     fuel - 1)

\* expandSuffixes, for an input on which it returns
expandSuffixes(input, stem) ==
    suffixesRun([input |-> input, stem |-> stem, i |-> 0,
                 expanded |-> <<>>, pc |-> "loop", turns |-> 0],
                Len(input) + 1).expanded

\* the match_vars of applyrules: stem0, stem1, ...
DigitOf(i) == <<"0", "1", "2", "3", "4", "5", "6", "7", "8", "9">>[i + 1]

matchVars(mat) ==
    [key \in {<<"s", "t", "e", "m", DigitOf(i)>> : i \in 0..(Len(mat) - 1)}
        |-> <<mat[CHOOSE i \in 1..Len(mat) : DigitOf(i - 1) = key[5]]>>]

\* the stem of a match is its first submatch; the whole match taken for it
wholeMatch(mat) == mat[1]

firstSubmatch(mat) == mat[2]

\* the prereq of a meta-rule for a match
metaPrereq(r, i, mat) ==
    IF IsRegex(r) THEN expandRecipeSigils(r.prereqs[i], matchVars(mat))
    ELSE expandSuffixes(r.prereqs[i], firstSubmatch(mat))

\* g.nodes[target], ok
registeredNever(g, str) == FALSE

registered(g, str) == str \in DOMAIN g.ids

\* graph.newnode
newnode(g, str) ==
    [g EXCEPT !.names = Append(@, str), !.edges = Append(@, <<>>),
              !.ids = (str :> (Len(g.names) + 1)) @@ @]

\* node.newedge on node u: an edge to node v by rule k
newedge(g, u, v, k) == [g EXCEPT !.edges[u] = Append(@, [v |-> v, r |-> k])]

\* a rule without recipe and prereqs
HasNoEffect(r) == r.recipe = <<>> /\ Len(r.prereqs) = 0

\* peak: the most times a meta-rule and a concrete rule have been counted in
\* rulecnt at once, and the most rules counted at once: the depth of the
\* recursion
NoGraph ==
    [names |-> <<>>, edges |-> <<>>, ids |-> <<>>, err |-> "",
     peak |-> [meta |-> 0, concrete |-> 0, depth |-> 0]]

\* the tests on rulecnt[k] that skip a rule: in the loop over the concrete
\* rules and in the loop over the meta-rules
concreteVisited(n) == n > maxRuleCnt

metaVisited(n) == n >= maxRuleCnt

RECURSIVE applyrulesOn(_, _, _, _)
RECURSIVE prereqsFrom(_, _, _, _, _, _, _)
RECURSIVE concreteFrom(_, _, _, _, _, _)
RECURSIVE metaFrom(_, _, _, _, _, _, _)

\* the loop over the prereqs of rule k, from the i-th of names on
prereqEdge(rs, res, u, k, names, i, cnt) ==
    prereqsFrom(rs, newedge(res.g, u, res.u, k), u, k, names, i + 1, cnt)

prereqsFrom(rs, g, u, k, names, i, cnt) ==
    IF i > Len(names) \/ g.err # "" THEN g
    ELSE prereqEdge(rs, applyrulesOn(rs, g, names[i], cnt), u, k, names, i,
                    cnt)

\* the edges of rule k on u: one to nil, or one for each prereq
RECURSIVE SeqSum(_)
SeqSum(q) == IF q = <<>> THEN 0 ELSE Head(q) + SeqSum(Tail(q))

deepened(g, n) == [g EXCEPT !.peak.depth = IF n > @ THEN n ELSE @]

counted(rs, g, k, cnt) ==
    IF rs[k].ismeta
    THEN [deepened(g, SeqSum(cnt) + 1)
            EXCEPT !.peak.meta = IF cnt[k] + 1 > @ THEN cnt[k] + 1 ELSE @]
    ELSE [deepened(g, SeqSum(cnt) + 1)
            EXCEPT !.peak.concrete = IF cnt[k] + 1 > @ THEN cnt[k] + 1
                                     ELSE @]

ruleEdges(rs, g, u, k, names, cnt) ==
    IF Len(names) = 0 THEN newedge(counted(rs, g, k, cnt), u, 0, k)
    ELSE prereqsFrom(rs, counted(rs, g, k, cnt), u, k, names, 1,
                     [cnt EXCEPT ![k] = @ + 1])

\* the loop over rs.targetrules[target], from the ki-th of ks on
concreteFrom(rs, g, u, ks, ki, cnt) ==
    IF ki > Len(ks) \/ g.err # "" THEN g
    ELSE IF \/ concreteVisited(cnt[ks[ki]])
            \/ rs[ks[ki]].ismeta
            \/ HasNoEffect(rs[ks[ki]])
    THEN concreteFrom(rs, g, u, ks, ki + 1, cnt)
    ELSE concreteFrom(rs, ruleEdges(rs, g, u, ks[ki], rs[ks[ki]].prereqs,
                                    cnt),
                      u, ks, ki + 1, cnt)

\* a meta-rule matches with mat: the stem is mat[1], which a match without
\* submatch has not
matched(rs, g, u, k, mat, cnt) ==
    IF ~IsRegex(rs[k]) /\ Len(mat) < 2 THEN [g EXCEPT !.err = "panic"]
    ELSE ruleEdges(rs, g, u, k,
                   [i \in 1..Len(rs[k].prereqs) |->
                       metaPrereq(rs[k], i, mat)],
                   cnt)

tried(rs, g, u, k, mat, cnt) ==
    IF mat = Nil THEN g ELSE matched(rs, g, u, k, mat, cnt)

\* the loop over the rules, from target j of rule k on
metaFrom(rs, g, u, k, j, str, cnt) ==
    IF k > Len(rs) \/ g.err # "" THEN g
    ELSE IF \/ metaVisited(cnt[k])
            \/ ~rs[k].ismeta
            \/ HasNoEffect(rs[k])
            \/ j > Len(rs[k].targets)
    THEN metaFrom(rs, g, u, k + 1, 1, str, cnt)
    ELSE metaFrom(rs, tried(rs, g, u, k, match(rs[k], j, str), cnt),
                  u, k, j + 1, str, cnt)

\* applyrules: the node of the target, made with its edges when the map has
\* none of its name
made(rs, g, u, str, cnt) ==
    [g |-> metaFrom(rs,
                    concreteFrom(rs, g, u, targetrules(rs, str, 1), 1, cnt),
                    u, 1, 1, str, cnt),
     u |-> u]

applyrulesOn(rs, g, str, cnt) ==
    IF registered(g, str) THEN [g |-> g, u |-> g.ids[str]]
    ELSE made(rs, newnode(g, str), Len(g.names) + 1, str, cnt)

\* buildgraph before its passes: the graph of the target
graphOf(rs, str) ==
    applyrulesOn(rs, NoGraph, str, [k \in 1..Len(rs) |-> 0]).g

(***************************************************************************)
(* Graphs.  A mkfile of a meta-rule for .o files, written with a % or as a *)
(* regular expression, among other rules; each form of the file is parsed  *)
(* and the graph of a target is built from its rules.                      *)
(***************************************************************************)
\* the tokens of a rule: targets, attributes if any, prereqs, and the
\* token that follows, the recipe or the end of the line
RuleLine(targets, attribs, prereqs, tk) ==
    [buf |-> [k \in 1..Len(targets) |-> tokenWord(targets[k])]
               \o <<tokenColon>>
               \o (IF attribs = <<>> THEN <<>>
                   ELSE <<tokenWord(attribs), tokenColon>>)
               \o [k \in 1..Len(prereqs) |-> tokenWord(prereqs[k])],
     tk |-> tk]

\* %.o: %.c
SuffixLine ==
    RuleLine(<<(<<"%", ".", "o">>)>>, <<>>, <<(<<"%", ".", "c">>)>>,
             tokenRecipe)

\* ^(.*)\.o$:R: $stem1.c
RegexLine ==
    RuleLine(<<(<<"^", "(", ".", "*", ")", "\\", ".", "o", "$">>)>>, <<"R">>,
             <<(<<"$", "s", "t", "e", "m", "1", ".", "c">>)>>, tokenRecipe)

\* a.c: a.y with a recipe; a.o: h without; %.c: %.y; h: a.o
ContextLines ==
    {RuleLine(<<(<<"a", ".", "c">>)>>, <<>>, <<(<<"a", ".", "y">>)>>,
              tokenRecipe),
     RuleLine(<<(<<"a", ".", "o">>)>>, <<>>, <<(<<"h">>)>>, tokenNewline),
     RuleLine(<<(<<"%", ".", "c">>)>>, <<>>, <<(<<"%", ".", "y">>)>>,
              tokenRecipe),
     RuleLine(<<(<<"h">>)>>, <<>>, <<(<<"a", ".", "o">>)>>, tokenRecipe)}

GraphTargets ==
    {<<"a", ".", "o">>, <<".", "o">>, <<"a", ".", "o", ".", "o">>,
     <<"b", ".", "c", ".", "o">>, <<"h">>, <<"a", ".", "c">>}

\* the lines of a file: the context with the meta-rule as its at-th line
FileLines(ctx, at, line) ==
    SubSeq(ctx, 1, at - 1) \o <<line>> \o SubSeq(ctx, at, Len(ctx))

RECURSIVE parseRules(_, _)
\* parseRecipe on each line in turn: the rules of the file
parseRules(p, lines) ==
    IF lines = <<>> THEN p.rules
    ELSE parseRules(parseRecipe([p EXCEPT !.tokenbuf = lines[1].buf],
                                lines[1].tk),
                    Tail(lines))

\* parse and buildgraph as far as applyrules: the graph of the target
graphOfFile(lines, str) ==
    graphOf(parseRules(Parser(Frame(MainPath, Env), SetDir(Env, MainPath),
                              <<>>), lines), str)

InitGraph ==
    /\ SchedIdle
    /\ exit = "running"
    /\ stderr = ""
    /\ xp = <<>>
    /\ pr = <<>>
    /\ \E n \in 0..MaxContext : \E ctx \in [1..n -> ContextLines] :
       \E at \in 1..(n + 1), str \in GraphTargets :
          amb = [ctx |-> ctx, at |-> at, target |-> str, graphs |-> <<>>]

\* the file with the rule %.o: %.c is parsed and the graph built
GraphOfSuffix ==
    /\ "graphs" \in DOMAIN amb /\ "suffix" \notin DOMAIN amb.graphs
    /\ amb' = [amb EXCEPT !.graphs =
                 ("suffix" :> graphOfFile(FileLines(amb.ctx, amb.at,
                                                    SuffixLine),
                                          amb.target)) @@ @]
    /\ UNCHANGED <<schedVars, exit, stderr, xp, pr>>

\* the file with the rule as a regular expression is parsed and the graph
\* built
GraphOfRegex ==
    /\ "graphs" \in DOMAIN amb /\ "regex" \notin DOMAIN amb.graphs
    /\ amb' = [amb EXCEPT !.graphs =
                 ("regex" :> graphOfFile(FileLines(amb.ctx, amb.at,
                                                   RegexLine),
                                         amb.target)) @@ @]
    /\ UNCHANGED <<schedVars, exit, stderr, xp, pr>>

NextGraph ==
    \/ GraphOfSuffix
    \/ GraphOfRegex

SpecGraph == InitGraph /\ [][NextGraph]_vars

\* the names of the nodes of the edges of node u, in order, nil for none
ChildNames(g, u) ==
    [k \in 1..Len(g.edges[u]) |->
        IF g.edges[u][k].v = 0 THEN Nil ELSE g.names[g.edges[u][k].v]]

\* the target ends in .o: the rule %.o matches it
EndsInDotO(str) ==
    /\ Len(str) >= 2 /\ Drop(str, Len(str) - 2) = <<".", "o">>
    /\ \A k \in 1..Len(str) : str[k] # "\n"

\* C22: for a target that %.o: %.c matches, the graph under the rule
\* written as the regular expression ^(.*)\.o$ with the attribute R and the
\* prereq $stem1.c has the same nodes with the same edges: the same names
\* of the nodes below each node, in the same order.
SuffixAsRegex ==
    (/\ "graphs" \in DOMAIN amb
     /\ DOMAIN amb.graphs = {"suffix", "regex"}
     /\ EndsInDotO(amb.target))
    => /\ amb.graphs["suffix"].names = amb.graphs["regex"].names
       /\ amb.graphs["suffix"].err = "" /\ amb.graphs["regex"].err = ""
       /\ \A u \in 1..Len(amb.graphs["suffix"].names) :
             ChildNames(amb.graphs["suffix"], u)
                = ChildNames(amb.graphs["regex"], u)

\* C22, its case: the two graphs of a.o in a file with a.o: h before the
\* meta-rule: the nodes h and a.c below the target, in that order, by
\* either form
SuffixAndRegexBuilt ==
    /\ "graphs" \in DOMAIN amb
    /\ DOMAIN amb.graphs = {"suffix", "regex"}
    /\ amb.target = <<"a", ".", "o">>
    /\ amb.at = 2
    /\ ChildNames(amb.graphs["regex"], 1)
          = <<(<<"h">>), (<<"a", ".", "c">>)>>
    /\ ChildNames(amb.graphs["suffix"], 1)
          = <<(<<"h">>), (<<"a", ".", "c">>)>>

\* the edges of a graph that lead to a node
EdgesTo(g) ==
    {e \in UNION {{g.edges[u][k] : k \in 1..Len(g.edges[u])} :
                     u \in 1..Len(g.edges)} : e.v # 0}

\* C30: a graph has one node for each name: the map g.nodes holds every
\* node under its name, so that applyrules returns the node of a name that
\* is reached again by any rule, and the edges to one name lead to one
\* node.
OneNodePerName ==
    "graphs" \in DOMAIN amb =>
        \A f \in DOMAIN amb.graphs :
            LET g == amb.graphs[f]
            IN /\ \A u, v \in 1..Len(g.names) :
                     g.names[u] = g.names[v] => u = v
               /\ DOMAIN g.ids = {g.names[u] : u \in 1..Len(g.names)}
               /\ \A u \in 1..Len(g.names) : g.ids[g.names[u]] = u
               /\ \A e1, e2 \in EdgesTo(g) :
                     g.names[e1.v] = g.names[e2.v] => e1.v = e2.v

\* C30, its case: a graph in which the target is reached again from below,
\* by the rule h: a.o, and has the node a.c as well
NodeReachedAgain ==
    /\ "graphs" \in DOMAIN amb
    /\ \E f \in DOMAIN amb.graphs :
          LET g == amb.graphs[f]
          IN /\ g.names[1] = <<"a", ".", "o">>
             /\ \E u \in 2..Len(g.names) :
                   /\ g.names[u] = <<"h">>
                   /\ \E k \in 1..Len(g.edges[u]) : g.edges[u][k].v = 1
             /\ \E k \in 1..Len(g.edges[1]) :
                   g.edges[1][k].v # 0
                   /\ g.names[g.edges[1][k].v] = <<"a", ".", "c">>


\* ---------------------------------------------------------------------
\* The lexer of lex.go: the recipe block
\* ---------------------------------------------------------------------

\* the longest text lexed after the header of the rule
MaxBody == 7

\* the tokens the model keeps of those a lexer has sent, the latest ones:
\* more than any text lexed gives when every token holds a character
MaxEmitted == 10

\* what peek returns at the end of the input
eof == "eof"

Blanks == {" ", "\t"}

Whites == {" ", "\t", "\n", "\r"}

\* the characters of the texts lexed: a tab, a newline and a letter
BodyChars == {"\t", "\n", "c"}

\* a rule header followed by any text
LexInputs == {<<"t", ":">> \o b : b \in StringsUpTo(BodyChars, MaxBody)}

\* the lexer after lex(input): every other field has its zero value
lexer(input) ==
    [input |-> input, output |-> <<>>, start |-> 0, pos |-> 0, line |-> 0,
     col |-> 0, indented |-> FALSE, state |-> "lexTopLevel", turns |-> 0]

\* the nth character from the position, the input being single-byte
peekN(l, n) ==
    IF l.pos + n < Len(l.input) THEN l.input[l.pos + n + 1] ELSE eof

peek(l) == peekN(l, 0)

\* the lexer after next(): nothing is consumed at the end of the input
next(l) ==
    IF l.pos >= Len(l.input)
    THEN l
    ELSE IF l.input[l.pos + 1] = "\n"
         THEN [l EXCEPT !.pos = @ + 1, !.col = 0, !.line = @ + 1,
                        !.indented = TRUE]
         ELSE [l EXCEPT !.pos = @ + 1, !.col = @ + 1,
                        !.indented = @ /\ l.input[l.pos + 1] \in Blanks]

skip(l) == [next(l) EXCEPT !.start = next(l).pos]

\* the tokens sent on the channel, the oldest dropped beyond MaxEmitted
sent(ts) == IF Len(ts) > MaxEmitted THEN Tail(ts) ELSE ts

emit(l, typ) ==
    [l EXCEPT !.output = sent(Append(@, [typ |-> typ,
                                         val |-> SubSeq(l.input, l.start + 1,
                                                        l.pos)])),
              !.start = l.pos]

RECURSIVE acceptRun(_, _)
acceptRun(l, valid) ==
    IF peek(l) \in valid THEN acceptRun(next(l), valid) ELSE l

RECURSIVE acceptUntil(_, _)
acceptUntil(l, invalid) ==
    IF l.pos < Len(l.input) /\ peek(l) \notin invalid
    THEN acceptUntil(next(l), invalid)
    ELSE l

RECURSIVE skipRun(_, _)
skipRun(l, valid) ==
    IF peek(l) \in valid THEN skipRun(skip(l), valid) ELSE l

\* the first loop of lexTopLevel: white space is skipped, and a quote before
\* a newline is consumed with it
RECURSIVE topSkipped(_)
topSkipped(l) ==
    IF peek(skipRun(l, Whites)) = "'" /\ peekN(skipRun(l, Whites), 1) = "\n"
    THEN topSkipped([next(next(skipRun(l, Whites)))
                       EXCEPT !.indented = FALSE])
    ELSE skipRun(l, Whites)

\* the state lexTopLevel returns
lexTopLevel(l) ==
    IF l.indented /\ l.col > 0 THEN "lexRecipe"
    ELSE CASE peek(l) = eof -> "nil"
           [] peek(l) = "#" -> "lexComment"
           [] peek(l) = "<" -> "lexInclude"
           [] peek(l) = "\"" -> "lexDoubleQuote"
           [] peek(l) = "'" -> "lexSingleQuote"
           [] peek(l) = ":" -> "lexColon"
           [] peek(l) = "=" -> "lexAssign"
           [] OTHER -> "lexBareString"

\* one turn of the loop of lexRecipe; the token is emitted when the loop is
\* left, and the loop is entered again otherwise
lexRecipe(l) ==
    IF ~l.indented \/ l.col = 0
    THEN [emit(l, "Recipe") EXCEPT !.state = "lexTopLevel"]
    ELSE [l EXCEPT !.turns = IF @ < 2 THEN @ + 1 ELSE @]

InitLex ==
    /\ SchedIdle
    /\ exit = "running"
    /\ stderr = ""
    /\ amb = <<>>
    /\ pr = <<>>
    /\ \E input \in LexInputs : xp = lexer(input)

LexTopLevel ==
    /\ xp.state = "lexTopLevel"
    /\ xp' = [topSkipped(xp) EXCEPT !.state = lexTopLevel(topSkipped(xp))]
    /\ UNCHANGED <<schedVars, exit, stderr, amb, pr>>

LexColon ==
    /\ xp.state = "lexColon"
    /\ xp' = [emit(next(xp), "Colon") EXCEPT !.state = "lexTopLevel"]
    /\ UNCHANGED <<schedVars, exit, stderr, amb, pr>>

LexBareString ==
    /\ xp.state = "lexBareString"
    /\ xp' = [emit(acceptUntil(xp, Whites \cup {"\\", "=", ":", "#", "'",
                                                "\""}),
                   "BareString")
                EXCEPT !.state = "lexTopLevel"]
    /\ UNCHANGED <<schedVars, exit, stderr, amb, pr>>

LexRecipe ==
    /\ xp.state = "lexRecipe"
    /\ xp' = lexRecipe(acceptRun(acceptUntil(xp, {"\n"}), Whites))
    /\ UNCHANGED <<schedVars, exit, stderr, amb, pr>>

NextLex ==
    \/ LexTopLevel
    \/ LexColon
    \/ LexBareString
    \/ LexRecipe

SpecLex == InitLex /\ [][NextLex]_vars

Min(S) == CHOOSE x \in S : \A y \in S : x <= y

\* the end of the block that starts at the offset s: the start of the next
\* line whose first character is not white space, or the end of the input
BlockEnd(input, s) ==
    Min({Len(input)} \cup
        {p \in s + 1 .. Len(input) - 1 :
            input[p] = "\n" /\ input[p + 1] \notin Whites})

\* the step emits a Recipe token
RecipeEmitted ==
    /\ xp.state = "lexRecipe"
    /\ xp'.state = "lexTopLevel"

\* the token emitted is the block from where lexRecipe was entered
BlockEmitted ==
    RecipeEmitted =>
        /\ Len(xp'.output) = Len(xp.output) + 1
        /\ xp'.output[Len(xp'.output)] =
              [typ |-> "Recipe",
               val |-> SubSeq(xp.input, xp.start + 1,
                              BlockEnd(xp.input, xp.start))]

\* a turn of the loop of lexRecipe that does not leave it consumes something
TurnConsumes ==
    (xp.state = "lexRecipe" /\ xp'.state = "lexRecipe") => xp'.pos > xp.pos

\* C25: the recipe after a rule header is lexed as one Recipe token that
\* holds every line up to the next line that starts at column 0 with a
\* character other than white space, or up to the end of the input, blank
\* lines included: when lexRecipe emits, the token is that block, and
\* lexRecipe emits for every input, each turn of its loop consuming input
\* until it does.
RecipeIsBlock == [][BlockEmitted /\ TurnConsumes]_vars

\* the Recipe token, when one is emitted, is the block, blank lines included
RecipeTokenIsBlock == [][BlockEmitted]_vars

\* a Recipe token with a blank line inside has been emitted
BlankLineInRecipe ==
    /\ xp.state = "lexTopLevel"
    /\ \E k \in DOMAIN xp.output :
          /\ xp.output[k].typ = "Recipe"
          /\ \E j \in 1 .. Len(xp.output[k].val) - 2 :
                /\ xp.output[k].val[j] = "\n"
                /\ xp.output[k].val[j + 1] = "\n"
                /\ xp.output[k].val[j + 2] = "\t"


\* ---------------------------------------------------------------------
\* subprocess: the pipes, the two goroutines and the child
\* ---------------------------------------------------------------------

\* the bytes a pipe holds before a write to it blocks
PipeCap == 2

\* the longest text piped into the child and the most bytes it writes
MaxPayload == 3

MaxOutput == 3

\* the size of buf, the most bytes one Read returns (1024 in recipe.go)
BufSize == 2

\* the bytes 1 .. n in order
Bytes(n) == [k \in 1 .. n |-> k]

\* the child reads nothing of its stdin, reads some of it, or reads it to
\* the end of file; it reads and writes in any order, or reads to the end of
\* file before it writes, or writes everything before it reads
ChildReads == {"none", "some", "all"}

ChildOrders == {"any", "readFirst", "writeFirst"}

\* subprocess after StartProcess and the two go statements: the pipes are
\* empty, the parent holds a write end of each and the child the other ends
InitSubprocess ==
    /\ SchedIdle
    /\ exit = "running"
    /\ stderr = ""
    /\ xp = <<>>
    /\ pr = <<>>
    /\ \E capture \in BOOLEAN, n \in 0 .. MaxPayload, want \in 0 .. MaxOutput,
          reads \in ChildReads, order \in ChildOrders :
          amb = [capture |-> capture, input |-> Bytes(n), want |-> want,
                 reads |-> reads, order |-> order,
                 stdin |-> <<>>, stdinOpen |-> TRUE,
                 stdout |-> <<>>,
                 writeEnds |-> IF capture THEN {"parent", "child"} ELSE {},
                 child |-> "running", sawEOF |-> FALSE, written |-> 0,
                 reader |-> IF capture THEN "read" ELSE "none",
                 output |-> <<>>,
                 writer |-> "write",
                 pc |-> "wait", success |-> FALSE]

\* the write end of the stdout pipe the parent holds is closed, when there
\* is such a pipe
keptOpen(ends) == ends

closed(ends) == ends \ {"parent"}

\* the goroutine that copies the stdout of the child: one Read and what
\* follows it
CaptureRead ==
    /\ amb.reader = "read"
    /\ \/ /\ amb.stdout # <<>>
          /\ \E n \in 1 .. Len(amb.stdout) :
                /\ n <= BufSize
                /\ amb' = [amb EXCEPT !.output = @ \o Take(amb.stdout, n),
                                      !.stdout = Drop(@, n)]
       \/ /\ amb.stdout = <<>>
          /\ amb.writeEnds = {}
          /\ amb' = [amb EXCEPT !.reader = "send"]
    /\ UNCHANGED <<schedVars, exit, stderr, xp, pr>>

\* the goroutine that writes the input: WriteString puts into the pipe what
\* fits and goes on when there is room again; subprocess does not close the
\* read end it holds, so that a write to the full pipe waits and does not fail
StdinWrite ==
    /\ amb.writer = "write"
    /\ \/ /\ amb.input # <<>>
          /\ Len(amb.stdin) < PipeCap
          /\ LET n == IF Len(amb.input) < PipeCap - Len(amb.stdin)
                      THEN Len(amb.input)
                      ELSE PipeCap - Len(amb.stdin)
             IN amb' = [amb EXCEPT !.stdin = @ \o Take(amb.input, n),
                                   !.input = Drop(@, n)]
       \/ /\ amb.input = <<>>
          /\ amb' = [amb EXCEPT !.writer = "close"]
    /\ UNCHANGED <<schedVars, exit, stderr, xp, pr>>

StdinClose ==
    /\ amb.writer = "close"
    /\ amb' = [amb EXCEPT !.writer = "done", !.stdinOpen = FALSE]
    /\ UNCHANGED <<schedVars, exit, stderr, xp, pr>>

\* the child reads from its stdin: some bytes, or the end of file once the
\* pipe is empty and its write end closed
ChildRead ==
    /\ amb.child = "running"
    /\ amb.reads # "none"
    /\ ~amb.sawEOF
    /\ amb.order = "writeFirst" => amb.written = amb.want
    /\ \/ /\ amb.stdin # <<>>
          /\ \E n \in 1 .. Len(amb.stdin) :
                amb' = [amb EXCEPT !.stdin = Drop(@, n)]
       \/ /\ amb.stdin = <<>>
          /\ ~amb.stdinOpen
          /\ amb' = [amb EXCEPT !.sawEOF = TRUE]
    /\ UNCHANGED <<schedVars, exit, stderr, xp, pr>>

\* the child writes one byte to its stdout: into the pipe when the output
\* is captured, to the stdout of mk otherwise
ChildWrite ==
    /\ amb.child = "running"
    /\ amb.written < amb.want
    /\ (amb.order = "readFirst" /\ amb.reads = "all") => amb.sawEOF
    /\ IF amb.capture
       THEN /\ Len(amb.stdout) < PipeCap
            /\ amb' = [amb EXCEPT !.stdout = Append(@, amb.written + 1),
                                  !.written = @ + 1]
       ELSE amb' = [amb EXCEPT !.written = @ + 1]
    /\ UNCHANGED <<schedVars, exit, stderr, xp, pr>>

\* the child exits, with any status: its ends of the pipes are closed
ChildExit ==
    /\ amb.child = "running"
    /\ amb.written = amb.want
    /\ amb.reads = "all" => amb.sawEOF
    /\ \E ok \in BOOLEAN :
          amb' = [amb EXCEPT !.child = "exited", !.success = ok,
                             !.writeEnds = @ \ {"child"}]
    /\ UNCHANGED <<schedVars, exit, stderr, xp, pr>>

\* proc.Wait returns
ProcWait ==
    /\ amb.pc = "wait"
    /\ amb.child = "exited"
    /\ amb' = [amb EXCEPT !.pc = "close"]
    /\ UNCHANGED <<schedVars, exit, stderr, xp, pr>>

\* the write end of the stdout pipe is closed; without capture the call
\* returns
CloseStdout ==
    /\ amb.pc = "close"
    /\ amb' = [amb EXCEPT !.writeEnds = closed(@),
                          !.pc = IF amb.capture THEN "recv" ELSE "return"]
    /\ UNCHANGED <<schedVars, exit, stderr, xp, pr>>

\* capture_done is not buffered: the send and the receive are one step
CaptureDone ==
    /\ amb.pc = "recv"
    /\ amb.reader = "send"
    /\ amb' = [amb EXCEPT !.pc = "return", !.reader = "done"]
    /\ UNCHANGED <<schedVars, exit, stderr, xp, pr>>

Parent == ProcWait \/ CloseStdout \/ CaptureDone

StdinWriter == StdinWrite \/ StdinClose

Child == ChildRead \/ ChildWrite \/ ChildExit

NextSubprocess ==
    \/ CaptureRead
    \/ StdinWrite
    \/ StdinClose
    \/ ChildRead
    \/ ChildWrite
    \/ ChildExit
    \/ ProcWait
    \/ CloseStdout
    \/ CaptureDone

SpecSubprocess == InitSubprocess /\ [][NextSubprocess]_vars

\* every goroutine that can run does run, and so does the child
FairSubprocess ==
    /\ SpecSubprocess
    /\ WF_vars(Parent)
    /\ WF_vars(CaptureRead)
    /\ WF_vars(StdinWriter)
    /\ WF_vars(Child)

\* what subprocess returns is everything the child wrote, or nothing when
\* the output is not captured
CompleteOutput ==
    amb.pc = "return" =>
        amb.output = IF amb.capture THEN Bytes(amb.want) ELSE <<>>

\* C26: subprocess does not deadlock on a full pipe, whatever the sizes of
\* the input and of the output of the child are against the capacity of the
\* pipes: the child is never kept from exiting, once it has exited the call
\* returns, and it returns everything the child wrote when the output is
\* captured.
SubprocessReturns ==
    /\ []CompleteOutput
    /\ <>(amb.child = "exited")
    /\ (amb.child = "exited") ~> (amb.pc = "return")

\* the call has returned the captured output of a child whose stdin and
\* stdout both held more than a pipe does
ReturnedPastCapacity ==
    /\ amb.pc = "return"
    /\ amb.capture
    /\ amb.reads = "all"
    /\ Len(amb.output) > PipeCap
    /\ amb.writer = "done"
    /\ amb.want > PipeCap

\* the call has returned while the goroutine that writes the input is still
\* blocked on the full pipe
ReturnedWithWriterBlocked ==
    /\ amb.pc = "return"
    /\ amb.writer = "write"
    /\ Len(amb.stdin) = PipeCap


\* ---------------------------------------------------------------------
\* buildgraph: applyrules and the passes after it
\* ---------------------------------------------------------------------

\* the most rules of a mkfile, no rule being written twice
MaxLines == 3

nodeFlagReady == "Ready"

nodeFlagProbable == "Probable"

nodeFlagVacuous == "Vacuous"

\* the names of the mkfiles
NameT == <<"t">>

NameQ == <<"q">>

NamePA == <<"p", ".", "a">>

NamePB == <<"p", ".", "b">>

NamePC == <<"p", ".", "c">>

NamePY == <<"p", ".", "y">>

\* t: p.a p.b with a recipe
LineT == RuleLine(<<NameT>>, <<>>, <<NamePA, NamePB>>, tokenRecipe)

\* t: q without a recipe
LineTQ == RuleLine(<<NameT>>, <<>>, <<NameQ>>, tokenNewline)

\* q: t with a recipe
LineQT == RuleLine(<<NameQ>>, <<>>, <<NameT>>, tokenRecipe)

\* %.a %.b: %.c
LineAB ==
    RuleLine(<<(<<"%", ".", "a">>), (<<"%", ".", "b">>)>>, <<>>,
             <<(<<"%", ".", "c">>)>>, tokenRecipe)

\* %.c: %.y
LineC ==
    RuleLine(<<(<<"%", ".", "c">>)>>, <<>>, <<(<<"%", ".", "y">>)>>,
             tokenRecipe)

\* %.a: %.z %.c
LineA ==
    RuleLine(<<(<<"%", ".", "a">>)>>, <<>>,
             <<(<<"%", ".", "z">>), (<<"%", ".", "c">>)>>, tokenRecipe)

\* %: %.c
LineAny == RuleLine(<<(<<"%">>)>>, <<>>, <<(<<"%", ".", "c">>)>>, tokenRecipe)

PassLines == {LineT, LineTQ, LineQT, LineAB, LineC, LineA, LineAny}

PassTargets == {NameT, NamePA}

\* the files that may exist
PassFiles == {NamePY}

\* the graph of applyrules with what newnode, applyrules and buildgraph
\* leave in the flags: a node is probable when its file exists, when
\* everything is rebuilt and when a concrete rule has given it edges
flagged(rs, g, files, all) ==
    [names |-> g.names,
     edges |-> [u \in 1..Len(g.edges) |->
                  [k \in 1..Len(g.edges[u]) |->
                      [v |-> g.edges[u][k].v, r |-> g.edges[u][k].r,
                       togo |-> FALSE]]],
     flags |-> [u \in 1..Len(g.names) |->
                  IF \/ g.names[u] \in files
                     \/ all
                     \/ \E k \in 1..Len(g.edges[u]) :
                           ~rs[g.edges[u][k].r].ismeta
                  THEN {nodeFlagProbable} ELSE {}],
     bad |-> FALSE, err |-> ""]

\* cyclecheck comes to mkError below u: a node with edges is entered while
\* it is being checked
RECURSIVE cyclecheck(_, _, _)
cyclecheck(g, u, path) ==
    IF u \in path /\ Len(g.edges[u]) > 0 THEN TRUE
    ELSE \E k \in 1..Len(g.edges[u]) :
            /\ g.edges[u][k].v # 0
            /\ cyclecheck(g, g.edges[u][k].v, path \cup {u})

\* the second loop of vacuous: the edges of a rule that has an edge left
\* unmarked are all unmarked
keepMarks(es) == es

keepRuleEdges(es) ==
    [k \in 1..Len(es) |->
        [es[k] EXCEPT !.togo =
            @ /\ ~\E j \in 1..Len(es) : ~es[j].togo /\ es[j].r = es[k].r]]

RECURSIVE vacuousOn(_, _, _)
RECURSIVE vacuousFrom(_, _, _, _, _)

\* the call on the node of edge i has returned res
vacuousEdge(rs, res, u, i, vac) ==
    IF res.vac /\ rs[res.g.edges[u][i].r].ismeta
    THEN vacuousFrom(rs, [res.g EXCEPT !.edges[u][i].togo = TRUE], u, i + 1,
                     vac)
    ELSE vacuousFrom(rs, res.g, u, i + 1, FALSE)

\* the first loop of vacuous, from edge i on
vacuousFrom(rs, g, u, i, vac) ==
    IF i > Len(g.edges[u]) THEN [g |-> g, vac |-> vac]
    ELSE IF g.edges[u][i].v = 0 THEN vacuousFrom(rs, g, u, i + 1, FALSE)
    ELSE vacuousEdge(rs, vacuousOn(rs, g, g.edges[u][i].v), u, i, vac)

\* vacuous after its first loop
vacuousEnd(res, u) ==
    [g |-> [res.g EXCEPT !.edges[u] = togo(keepRuleEdges(@)),
                         !.flags[u] = IF res.vac
                                      THEN @ \cup {nodeFlagVacuous} ELSE @],
     vac |-> res.vac]

\* what vacuous returns for a node it has been called on before
visitedVacuous(g, u) == nodeFlagProbable \notin g.flags[u]

vacuousOn(rs, g, u) ==
    IF nodeFlagReady \in g.flags[u]
    THEN [g |-> g, vac |-> visitedVacuous(g, u)]
    ELSE vacuousEnd(vacuousFrom(rs,
                                [g EXCEPT !.flags[u] =
                                            @ \cup {nodeFlagReady}],
                                u, 1, nodeFlagProbable \notin g.flags[u]),
                    u)

\* the rule of an edge as equivRecipe reads it: no rule names a shell
recipeOf(r) == [recipe |-> r.recipe, shell |-> <<"sh">>]

RECURSIVE ambiguousFrom(_, _, _, _, _)
RECURSIVE ambiguousOn(_, _, _)

\* the loop of ambiguous on the edge i of u, after the call on its node
ambiguousEdge(rs, g, u, i, le) ==
    IF g.err # "" THEN g
    ELSE IF rs[g.edges[u][i].r].recipe = <<>>
    THEN ambiguousFrom(rs, g, u, i + 1, le)
    ELSE IF le = 0 THEN ambiguousFrom(rs, g, u, i + 1, i)
    ELSE IF equivRecipe(recipeOf(rs[g.edges[u][le].r]),
                        recipeOf(rs[g.edges[u][i].r]))
    THEN ambiguousFrom(rs, g, u, i + 1, le)
    ELSE IF rs[g.edges[u][le].r].ismeta /\ ~rs[g.edges[u][i].r].ismeta
    THEN ambiguousFrom(rs, [g EXCEPT !.edges[u][le].togo = TRUE], u, i + 1,
                       i)
    ELSE IF ~rs[g.edges[u][le].r].ismeta /\ rs[g.edges[u][i].r].ismeta
    THEN ambiguousFrom(rs, [g EXCEPT !.edges[u][i].togo = TRUE], u, i + 1,
                       le)
    ELSE ambiguousFrom(rs, [g EXCEPT !.bad = TRUE], u, i + 1, le)

ambiguousFrom(rs, g, u, i, le) ==
    IF i > Len(g.edges[u])
    THEN IF g.bad THEN [g EXCEPT !.err = "mk: ambiguous recipes"]
         ELSE [g EXCEPT !.edges[u] = togo(@)]
    ELSE IF g.edges[u][i].v = 0 THEN ambiguousEdge(rs, g, u, i, le)
    ELSE ambiguousEdge(rs, ambiguousOn(rs, g, g.edges[u][i].v), u, i, le)

\* ambiguous on u, bad being 0 at its start
ambiguousOn(rs, g, u) ==
    IF g.err # "" THEN g
    ELSE ambiguousFrom(rs, [g EXCEPT !.bad = FALSE], u, 1, 0)

\* mkNode: the edge e it takes the rule from, the last edge of the node
ruleEdgeOf(es) == es[Len(es)]

InitPasses ==
    /\ SchedIdle
    /\ exit = "running"
    /\ stderr = ""
    /\ xp = <<>>
    /\ pr = <<>>
    /\ \E n \in 0..MaxLines : \E lines \in [1..n -> PassLines] :
       \E str \in PassTargets, files \in SUBSET PassFiles, all \in BOOLEAN :
          /\ \A i, j \in 1..n : lines[i] = lines[j] => i = j
          /\ amb = [rebuildall |-> all,
                    rs |-> parseRules(Parser(Frame(MainPath, Env),
                                             SetDir(Env, MainPath), <<>>),
                                      lines),
                    target |-> str, files |-> files, pc |-> "applyrules",
                    built |-> <<>>, g |-> <<>>, before |-> <<>>]

\* buildgraph: g.root = applyrules(rs, g, target, rulecnt)
ApplyRules ==
    /\ exit = "running" /\ amb.pc = "applyrules"
    /\ amb' = [amb EXCEPT !.built = graphOf(amb.rs, amb.target),
                          !.g = flagged(amb.rs,
                                        graphOf(amb.rs, amb.target),
                                        amb.files, amb.rebuildall),
                          !.pc = "cyclecheck"]
    /\ UNCHANGED <<schedVars, exit, stderr, xp, pr>>

\* g.cyclecheck(g.root) and g.root.flags |= nodeFlagProbable
CycleCheck ==
    /\ exit = "running" /\ amb.pc = "cyclecheck"
    /\ IF cyclecheck(amb.g, 1, {})
       THEN /\ mkError("cycle in the graph detected")
            /\ UNCHANGED amb
       ELSE /\ amb' = [amb EXCEPT !.g.flags[1] = @ \cup {nodeFlagProbable},
                                  !.pc = "vacuous"]
            /\ UNCHANGED <<exit, stderr>>
    /\ UNCHANGED <<schedVars, xp, pr>>

\* g.vacuous(g.root)
Vacuous ==
    /\ exit = "running" /\ amb.pc = "vacuous"
    /\ amb' = [amb EXCEPT !.before = amb.g,
                          !.g = vacuousOn(amb.rs, amb.g, 1).g,
                          !.pc = "ambiguous"]
    /\ UNCHANGED <<schedVars, exit, stderr, xp, pr>>

\* g.ambiguous(g.root): buildgraph returns, or the process ends in mkError
Ambiguous ==
    /\ exit = "running" /\ amb.pc = "ambiguous"
    /\ LET g == ambiguousOn(amb.rs, amb.g, 1)
       IN IF g.err # ""
          THEN /\ mkError(g.err)
               /\ UNCHANGED amb
          ELSE /\ amb' = [amb EXCEPT !.g = g, !.pc = "built"]
               /\ UNCHANGED <<exit, stderr>>
    /\ UNCHANGED <<schedVars, xp, pr>>

NextPasses ==
    \/ ApplyRules
    \/ CycleCheck
    \/ Vacuous
    \/ Ambiguous

SpecPasses == InitPasses /\ [][NextPasses]_vars


\* the edges of node u of graph g, as pairs of a node and a rule
EdgePairs(g, u) == {<<g.edges[u][k].v, g.edges[u][k].r>> :
                      k \in 1..Len(g.edges[u])}

\* the edges of u that the vacuous pass has removed
Removed(u) == EdgePairs(amb.before, u) \ EdgePairs(amb.g, u)

\* the vacuous pass has just run
AfterVacuous == exit = "running" /\ amb.pc = "ambiguous"

\* C31: after the vacuous pass, at every node the edges of any one rule are
\* all kept or all removed, and no edge of a rule that is not a meta-rule is
\* removed.
KeptOrRemovedByRule ==
    AfterVacuous =>
        \A u \in 1..Len(amb.g.names) :
            /\ \A e \in Removed(u) :
                  /\ amb.rs[e[2]].ismeta
                  /\ \A f \in EdgePairs(amb.before, u) :
                        f[2] = e[2] => f \in Removed(u)
            /\ EdgePairs(amb.g, u) \subseteq EdgePairs(amb.before, u)

\* C31, its case: a node keeps two edges of one meta-rule, one of them to a
\* vacuous node, and another node has lost the edges of a meta-rule
KeptWithVacuousPrereq ==
    /\ AfterVacuous
    /\ \E u \in 1..Len(amb.g.names) :
       \E i, j \in 1..Len(amb.g.edges[u]) :
          /\ amb.g.edges[u][i].r = amb.g.edges[u][j].r
          /\ amb.rs[amb.g.edges[u][i].r].ismeta
          /\ amb.g.edges[u][i].v # 0 /\ amb.g.edges[u][j].v # 0
          /\ nodeFlagVacuous \in amb.g.flags[amb.g.edges[u][i].v]
          /\ nodeFlagVacuous \notin amb.g.flags[amb.g.edges[u][j].v]
    /\ \E u \in 1..Len(amb.g.names) : Removed(u) # {}


\* a node with a route to an existing file or to a rule that is not a
\* meta-rule: it is probable, or one of its edges is of a rule that is not
\* a meta-rule, leads to no node or leads to a node with such a route
RECURSIVE Routed(_, _)
Routed(g, u) ==
    \/ nodeFlagProbable \in g.flags[u]
    \/ \E k \in 1..Len(g.edges[u]) :
          \/ ~amb.rs[g.edges[u][k].r].ismeta
          \/ g.edges[u][k].v = 0
          \/ Routed(g, g.edges[u][k].v)

\* C32: the vacuous pass removes an edge of a meta-rule only when the node
\* it leads to is vacuous, that is, has no route to an existing file or to
\* a rule that is not a meta-rule; this is so for every parent of the node,
\* not only for the first one visited.
RemovedOnlyToVacuous ==
    AfterVacuous =>
        \A u \in 1..Len(amb.g.names) : \A e \in Removed(u) :
            /\ amb.rs[e[2]].ismeta
            /\ e[1] # 0
            /\ ~Routed(amb.before, e[1])

\* the edges of graph g that lead to node v, each by its node and its place
EdgesInto(g, v) ==
    UNION {{<<u, k>> : k \in {j \in 1..Len(g.edges[u]) :
                                 g.edges[u][j].v = v}} :
             u \in 1..Len(g.names)}

\* an edge removed is the edge of a meta-rule, and when it is the only edge
\* to its node, that node is vacuous
RemovedSoleEdge ==
    AfterVacuous =>
        \A u \in 1..Len(amb.g.names) : \A e \in Removed(u) :
            /\ amb.rs[e[2]].ismeta
            /\ e[1] # 0
            /\ Cardinality(EdgesInto(amb.before, e[1])) = 1
                  => ~Routed(amb.before, e[1])


\* buildgraph has returned the graph
GraphBuilt == exit = "running" /\ amb.pc = "built"

\* the rules of the edges left at node u
RulesLeft(u) == {amb.g.edges[u][k].r : k \in 1..Len(amb.g.edges[u])}

\* C33: when the edges left at a node after the passes are of more than one
\* rule, the rule mkNode takes for the node is the one with the recipe,
\* whatever the order of the rules in the mkfile.
RecipeRuleSelected ==
    GraphBuilt =>
        \A u \in 1..Len(amb.g.names) :
            (\E k \in RulesLeft(u) : amb.rs[k].recipe # <<>>)
            => amb.rs[ruleEdgeOf(amb.g.edges[u]).r].recipe # <<>>

\* the rule with the recipe is taken when the last edge of the node is its
\* own
RecipeRuleSelectedWhenLast ==
    GraphBuilt =>
        \A u \in 1..Len(amb.g.names) :
            (/\ amb.g.edges[u] # <<>>
             /\ \A k \in RulesLeft(u) :
                   amb.rs[k].recipe # <<>> => \A j \in RulesLeft(u) : j <= k
             /\ \E k \in RulesLeft(u) : amb.rs[k].recipe # <<>>)
            => amb.rs[ruleEdgeOf(amb.g.edges[u]).r].recipe # <<>>


\* applyrules has returned
RulesApplied == amb.pc # "applyrules"

AfterRecipeState == pr # <<>> /\ pr.last.typ # "none" /\ pr.last.typ # "Error"
                    /\ pr.last.from = "Recipe"

\* the rule parseRecipe has added
RuleAdded == pr.last.added[Len(pr.last.added)]

\* the header of the rule is in error: no rule is added and the process
\* ends
HeaderRefused == pr.last.added = pr.last.rules /\ exit = "mkError"

\* C35: in the Recipe state a Recipe token is attached to the rule that is
\* being added; any other token adds the rule with an empty recipe and is
\* then handled as at the top level: a word starts the next statement, in
\* which it is held once, a newline is passed, an include is begun, and a
\* colon or an equals sign is a syntax error.
RecipeOrReprocessed ==
    (AfterRecipeState /\ ~HeaderRefused) =>
        /\ Len(pr.last.added) = Len(pr.last.rules) + 1
        /\ SubSeq(pr.last.added, 1, Len(pr.last.rules)) = pr.last.rules
        /\ (RuleAdded.recipe # <<>>) = (pr.last.typ = "Recipe")
        /\ exit = "mkError" <=> pr.last.typ \in {"Colon", "Assign"}
        /\ (exit = "running" /\ pr.last.typ # "end") =>
              /\ pr.last.typ \in {"Recipe", "Newline"} =>
                    Top.state = "TopLevel" /\ Top.tokenbuf = <<>>
              /\ pr.last.typ = "Word" =>
                    /\ Top.state = "EqualsOrTarget"
                    /\ Len(Top.tokenbuf) = 1
                    /\ Top.tokenbuf[1].typ = "Word"
              /\ pr.last.typ = "PipeInclude" =>
                    Top.state = "PipeInclude" /\ Top.tokenbuf = <<>>
              /\ pr.last.typ = "RedirInclude" =>
                    Top.state = "RedirInclude" /\ Top.tokenbuf = <<>>

\* C35, its case: a word has followed the header of a rule and has begun the
\* next statement
WordAfterRule ==
    /\ AfterRecipeState
    /\ exit = "running"
    /\ pr.last.typ = "Word"
    /\ RuleAdded.recipe = <<>>
    /\ Top.state = "EqualsOrTarget"


(***************************************************************************)
(* The builders: the order of the recipes along an edge.                   *)
(***************************************************************************)
\* the edges T -> P of the graph mk runs on
BuildEdges ==
    {e \in Nodes \X Nodes :
        \E k \in 1..Len(Prereqs(e[1])) : Prereqs(e[1])[k].v = e[2]}

\* this step calls dorecipe on u
RecipeStarts(u) == runs'[u] = runs[u] + 1

\* C36: for every edge T -> P of the graph, the recipe of P never starts
\* after the recipe of T has started in the same run, also when P finished
\* Nop and is claimed again by another parent.
PrereqRecipeFirst ==
    [][\A e \in BuildEdges : RecipeStarts(e[2]) => runs[e[1]] = 0]_vars


(***************************************************************************)
(* The builders: what a run leaves, over the interleavings.                *)
(***************************************************************************)
\* the targets whose recipe has been executed
Executed == {n \in Nodes : runs[n] > 0}

\* main has returned from the build of Shared, whose files and recipe
\* outcomes are fixed
SharedBuilt == graph = Shared /\ exit = "returned"

\* what the run of Shared leaves when the builder w starts for s claims s
\* before the builder of p looks at s: s, then p, then w are made
InOrder ==
    [executed |-> {"s", "p", "w"},
     status |-> (RootName :> nodeStatusNop @@ "w" :> nodeStatusDone
                   @@ "p" :> nodeStatusDone @@ "s" :> nodeStatusDone)]

\* C37: for a fixed graph, fixed files and fixed recipe outcomes the set of
\* targets whose recipes are executed and the final status of every node
\* are the same in every interleaving of the builders: on Shared, every run
\* leaves what the run that makes s, p and w in order leaves.
SameInEveryInterleaving ==
    SharedBuilt => Executed = InOrder.executed /\ status = InOrder.status

\* C37, its reference: the run that makes s, p and w in order is an
\* interleaving
SharedBuiltInOrder ==
    SharedBuilt /\ Executed = InOrder.executed /\ status = InOrder.status

\* C37, what does hold: in every interleaving w is made exactly once and no recipe is
\* executed twice
SharedTargetMade ==
    SharedBuilt => runs["w"] = 1 /\ \A n \in Nodes : runs[n] <= 1


(***************************************************************************)
(* A second run: mk is started again over the same rules and the files     *)
(* the first run has left.                                                 *)
(***************************************************************************)
\* the run is the second one
Second == Opt(graph, "second", FALSE)

\* every recipe the run has executed has succeeded and has left its target
\* with a file newer than every file there was
CleanRun ==
    /\ ~DryRun
    /\ \A b \in DOMAIN builders : builders[b].pc # "recipe"
    /\ \A n \in Executed :
          /\ status[n] = nodeStatusDone
          /\ NodeRule(n).virtual \/ fs[n] > Max({graph.files[m] : m \in Nodes})

\* main has returned and mk is run again: buildgraph makes the graph anew,
\* newnode reading the files of now
SecondRun ==
    /\ exit = "returned" /\ ~Second
    /\ graph' = [second |-> TRUE, clean |-> CleanRun]
                   @@ [graph EXCEPT !.files = fs]
    /\ t' = fs
    /\ exists' = [n \in Nodes |-> fs[n] > 0]
    /\ status' = [n \in Nodes |-> nodeStatusReady]
    /\ listeners' = [n \in Nodes |-> <<>>]
    /\ mutex' = [n \in Nodes |-> NoOne]
    /\ flags' = [n \in Nodes |-> {}]
    /\ cstack' = <<[u |-> RootName, i |-> 0]>>
    /\ phase' = "cyclecheck"
    /\ builders' = NoBuilders
    /\ subprocsRunning' = 0
    /\ condL' = NoOne
    /\ condWaiters' = {}
    /\ exclusiveSubproc' = NoOne
    /\ exit' = "running"
    /\ runs' = [n \in Nodes |-> 0]
    /\ reached' = {}
    /\ started' = {}
    /\ UNCHANGED <<fs, clock, subprocsAllowed, stderr, frontVars>>

NextTwice == Next \/ SecondRun

SpecTwice == Init /\ [][NextTwice]_vars

\* C38: when every recipe executed in a run has succeeded and has left its
\* non-virtual target existing and newer than every earlier file, the run
\* that follows over the same rules and files executes no recipe of a
\* non-virtual target.
SecondRunIdle ==
    (Second /\ graph.clean /\ ~graph.rebuildall /\ graph.rebuildtargets = {})
        => \A n \in Executed : NodeRule(n).virtual


(***************************************************************************)
(* The lexer of lex.go on any text: the end of the lexing.                 *)
(***************************************************************************)
\* the longest text lexed
MaxText == 4

\* the characters of the texts: a letter, a colon, a newline, a tab, a
\* backslash and a double quote
TextChars == {"c", ":", "\n", "\t", "\\", "\""}

\* one turn of the loop of lexDoubleQuote, the next character not being the
\* closing quote
quoteTurn(l) ==
    IF peek(acceptUntil(l, {"\\", "\""})) = "\\"
    THEN IF peek(next(acceptUntil(l, {"\\", "\""}))) = "\""
         THEN next(next(acceptUntil(l, {"\\", "\""})))
         ELSE next(acceptUntil(l, {"\\", "\""}))
    ELSE acceptUntil(l, {"\\", "\""})

\* the loop of lexDoubleQuote and what follows it: at the closing quote the
\* token is emitted and the quote skipped, otherwise the loop takes a turn
lexDoubleQuote(l) ==
    IF peek(l) = "\""
    THEN [skip(emit(l, "QuotedString")) EXCEPT !.state = "lexTopLevel"]
    ELSE [quoteTurn(l) EXCEPT
            !.turns = IF quoteTurn(l).pos > l.pos THEN 0
                      ELSE IF @ < 2 THEN @ + 1 ELSE @]

InitLexAny ==
    /\ SchedIdle
    /\ exit = "running"
    /\ stderr = ""
    /\ amb = <<>>
    /\ pr = <<>>
    /\ \E input \in StringsUpTo(TextChars, MaxText) : xp = lexer(input)

\* lexDoubleQuote is entered: the opening quote is skipped
LexDoubleQuote ==
    /\ xp.state = "lexDoubleQuote"
    /\ xp' = [skip(xp) EXCEPT !.state = "lexDoubleQuote.for"]
    /\ UNCHANGED <<schedVars, exit, stderr, amb, pr>>

LexDoubleQuoteLoop ==
    /\ xp.state = "lexDoubleQuote.for"
    /\ xp' = lexDoubleQuote(xp)
    /\ UNCHANGED <<schedVars, exit, stderr, amb, pr>>

NextLexAny ==
    \/ LexTopLevel
    \/ LexColon
    \/ LexBareString
    \/ LexRecipe
    \/ LexDoubleQuote
    \/ LexDoubleQuoteLoop

SpecLexAny == InitLexAny /\ [][NextLexAny]_vars

\* run is one goroutine: it takes its next step while it has one
FairLexAny == SpecLexAny /\ WF_vars(NextLexAny)

\* run has left its loop and closes the channel of the tokens
StreamClosed == xp.state = "nil"

\* C39: for every finite input the lexer terminates and closes its token
\* stream, also on an unterminated quote, on a backslash that no newline
\* follows and on indentation of white space only at the end of the input.
LexerTerminates == <>StreamClosed

\* a state function that returns lexTopLevel has consumed a character
ReturnConsumes ==
    (xp.state # "lexTopLevel" /\ xp'.state = "lexTopLevel")
        => xp'.pos > xp.start

\* C39, its safety half: at least one character is consumed between two
\* successive returns to lexTopLevel
ConsumesBetweenReturns == [][ReturnConsumes]_vars

\* C39, what does hold: a text of letters, colons and newlines is lexed to
\* its end
PlainTextLexed ==
    (\A k \in DOMAIN xp.input : xp.input[k] \in {"c", ":", "\n"})
        => <>StreamClosed


(***************************************************************************)
(* The loops of expand and expandDoubleQuoted, turn by turn: the calls in  *)
(* progress are a stack, the innermost last.  What is followed is where    *)
(* each loop stands; the words are those of the operator expand.           *)
(***************************************************************************)
\* the longest word expanded
MaxWord == 5

\* the characters of the words: a letter, a backslash and the two quotes
WordChars == {"a", "\\", "\"", "'"}

\* a call of expand at the head of its loop
expandCall(input) == [fn |-> "expand", input |-> input, i |-> 0]

\* a call of expandDoubleQuoted at the head of its loop
quotedCall(input) ==
    [fn |-> "expandDoubleQuoted", input |-> input, j |-> 0, pc |-> "for",
     off |-> 0]

\* the offset the expansion of what follows the character c returns
offsetAfter(c, rest, input, vs) ==
    IF c = "\\" THEN expandEscape(rest).off
    ELSE IF c = "'" THEN expandSingleQuoted(rest).off
    ELSE IF c = Backquote THEN expandBackQuoted(rest, vs).off
    ELSE expandSigil(rest, vs).off

\* one turn of the loop of expand in the call f, below the calls under:
\* the call returns, or calls expandDoubleQuoted, or goes on past a fragment
expandTurn(under, f, vs) ==
    LET j == IF f.i < Len(f.input)
             THEN IndexAny(Drop(f.input, f.i),
                           {"\"", "'", Backquote, "$", "\\"})
             ELSE -1
        i1 == j + f.i + 1
    IN IF j < 0 THEN under
       ELSE IF f.input[i1] = "\""
       THEN under \o <<[f EXCEPT !.i = i1],
                       quotedCall(Drop(f.input, i1))>>
       ELSE under \o
            <<[f EXCEPT !.i = i1 + offsetAfter(f.input[i1],
                                               Drop(f.input, i1),
                                               f.input, vs)]>>

\* the head of a turn of the loop of expandDoubleQuoted in the call f: the
\* result of the search in input[j:] is assigned to j
quotedSearch(under, f) ==
    IF IndexAny(Drop(f.input, f.j), {"\"", "\\"}) < 0
    THEN under \o <<[f EXCEPT !.pc = "return", !.off = Len(f.input)]>>
    ELSE under \o
         <<[f EXCEPT !.j = IndexAny(Drop(f.input, f.j), {"\"", "\\"}),
                     !.pc = "found"]>>

\* the rest of the turn: the character at j is looked at
quotedTurn(under, f) ==
    LET j1 == f.j + 1
        all == [f EXCEPT !.pc = "return", !.off = Len(f.input)]
    IN IF f.input[j1] = "\""
       THEN under \o <<[f EXCEPT !.pc = "return", !.off = j1 + 1],
                       expandCall(Take(f.input, j1))>>
       ELSE IF f.input[j1] = "\\"
       THEN IF j1 + 1 < Len(f.input)
            THEN under \o <<[f EXCEPT !.pc = "for",
                                      !.j = j1 + 1
                                            + Width(Drop(f.input, j1 + 1))]>>
            ELSE under \o <<all>>
       ELSE under \o <<[f EXCEPT !.pc = "for", !.j = j1]>>

\* the calls in progress and the innermost of them
Calls == xp.calls

Innermost == Calls[Len(Calls)]

Outer == SubSeq(Calls, 1, Len(Calls) - 1)

InitLoops ==
    /\ SchedIdle
    /\ exit = "running"
    /\ stderr = ""
    /\ amb = <<>>
    /\ pr = <<>>
    /\ \E input \in StringsUpTo(WordChars, MaxWord) :
          xp = [input |-> input, vs |-> Table(<<>>),
                calls |-> <<expandCall(input)>>]

ExpandTurn ==
    /\ Calls # <<>> /\ Innermost.fn = "expand"
    /\ xp' = [xp EXCEPT !.calls = expandTurn(Outer, Innermost, xp.vs)]
    /\ UNCHANGED <<schedVars, exit, stderr, amb, pr>>

QuotedSearch ==
    /\ Calls # <<>> /\ Innermost.fn = "expandDoubleQuoted"
    /\ Innermost.pc = "for"
    /\ xp' = [xp EXCEPT !.calls = quotedSearch(Outer, Innermost)]
    /\ UNCHANGED <<schedVars, exit, stderr, amb, pr>>

QuotedTurn ==
    /\ Calls # <<>> /\ Innermost.fn = "expandDoubleQuoted"
    /\ Innermost.pc = "found"
    /\ xp' = [xp EXCEPT !.calls = quotedTurn(Outer, Innermost)]
    /\ UNCHANGED <<schedVars, exit, stderr, amb, pr>>

\* expandDoubleQuoted returns its offset and expand adds it to i
QuotedReturn ==
    /\ Calls # <<>> /\ Innermost.fn = "expandDoubleQuoted"
    /\ Innermost.pc = "return"
    /\ xp' = [xp EXCEPT
                !.calls = [Outer EXCEPT ![Len(Outer)].i = @ + Innermost.off]]
    /\ UNCHANGED <<schedVars, exit, stderr, amb, pr>>

NextLoops ==
    \/ ExpandTurn
    \/ QuotedSearch
    \/ QuotedTurn
    \/ QuotedReturn

SpecLoops == InitLoops /\ [][NextLoops]_vars

\* expand is one computation: it takes its next step while it has one
FairLoops == SpecLoops /\ WF_vars(NextLoops)

\* the outermost call of expand has returned
ExpandReturned == Calls = <<>>

\* C40: the expansion of a word terminates for every finite input, also
\* with a quote that is not closed and with backslashes between double
\* quotes.
ExpandTerminates == <>ExpandReturned

\* C40, what does hold: a word without a backslash, its quotes closed or
\* not, is expanded to its end
UnescapedExpanded ==
    (\A k \in DOMAIN xp.input : xp.input[k] # "\\") => <>ExpandReturned

====
